---- MODULE Spec2Model ----
(***************************************************************************)
(* A model of the tool-calling agent loop of github-agent: the two agent   *)
(* loops (GitHubPRAgent.run, GitHubAgent.run), the ToolExecutor that turns *)
(* every failure of a tool into text, and the conversation they share.     *)
(*                                                                         *)
(* Python strings are modelled as sequences of tokens, so that formatting, *)
(* joining and containment are computed and can be compared.  Python's     *)
(* None is the one-token sequence None, which models no Python string.     *)
(***************************************************************************)
EXTENDS Integers, Sequences, FiniteSets, TLC

VARIABLES
    impl,            \* which of the two agent classes the instance is
    model,           \* self.model
    catalog,         \* the module-level list TOOL_SCHEMAS, as names
    max_iterations,  \* self.max_iterations
    default_repo,    \* self.tool_executor.default_repo (GitHubPRAgent only)
    conversation,    \* self.conversation: sequence of turns
    pc,              \* per caller: position of its run coroutine
    iterations,      \* per caller: loop iterations begun by its run
    tool_calls,      \* per caller: the local list tool_calls of run
    tool_results,    \* per caller: the local list tool_results of run
    response,        \* per caller: content of the response being processed
    block,           \* per caller: index of the block the for loop is at
    outcome,         \* per caller: what its last run call returned or raised
    model_calls,     \* history, per caller: messages.create calls of its run
    last_stop,       \* history, per caller: stop_reason of its last response
    only_tool_use,   \* history, per caller: every response so far was tool_use
    emitted,         \* history, per caller: tool_use blocks the model emitted
    executions,      \* history, per caller: dispatcher calls made by its run
    runs_started,    \* history: run calls made on the instance
    calls_total,     \* history: model invocations on the instance
    blocks_total,    \* history: content blocks the model has produced
    sent,            \* history, per caller: messages= of its latest model call
    script,          \* history, per caller: what its run was called with and
                     \* what the model and GitHub answered during it
    pristine,        \* history: no run was called since construction or reset
    call             \* one call on ToolExecutor.execute or on a GitHubClient
                     \* method, for the specifications of these alone

vars == <<impl, model, catalog, max_iterations, default_repo, conversation, pc, iterations,
          tool_calls, tool_results, response, block, outcome, model_calls,
          last_stop, only_tool_use, emitted, executions, runs_started,
          calls_total, blocks_total, sent, script, pristine, call>>

(***************************************************************************)
(* Bounds of the model.                                                    *)
(***************************************************************************)
MaxIter == 2          \* largest configured max_iterations
MaxRuns == 2          \* run calls on one instance
MaxModelCalls == 2    \* model invocations on one instance, over all its runs
MaxBlocksTotal == 2   \* content blocks the model produces on one instance
MaxChecks == 2        \* check runs GitHub reports for one commit
MaxComments == 2      \* comments of each kind GitHub reports for one PR
MaxTime == 2          \* latest creation time of a comment
MaxReviews == 2       \* reviews GitHub reports for one PR

None == <<"<None>">>

(***************************************************************************)
(* Strings.                                                                *)
(***************************************************************************)
RECURSIVE Concat(_)
Concat(ss) == IF ss = <<>> THEN <<>> ELSE Head(ss) \o Concat(Tail(ss))

\* sep.join(ss)
RECURSIVE Join(_, _)
Join(sep, ss) ==
    IF ss = <<>> THEN <<>>
    ELSE IF Len(ss) = 1 THEN Head(ss)
    ELSE Head(ss) \o sep \o Join(sep, Tail(ss))

\* needle in s
Contains(s, needle) ==
    \E i \in 0..(Len(s) - Len(needle)) :
        SubSeq(s, i + 1, i + Len(needle)) = needle

\* s.split("/")
RECURSIVE Split(_)
Split(s) ==
    IF s = <<>> THEN << <<>> >>
    ELSE IF Head(s) = "/" THEN << <<>> >> \o Split(Tail(s))
    ELSE LET rest == Split(Tail(s))
         IN  << <<Head(s)>> \o Head(rest) >> \o Tail(rest)

\* dict.get(key, default) and key in dict
Get(d, key, default) == IF key \in DOMAIN d THEN d[key] ELSE default
Has(d, key) == key \in DOMAIN d

\* truthiness of an optional string
Truthy(s) == s # None /\ s # <<>>

EmptyDict == [k \in {} |-> 0]

(***************************************************************************)
(* The tool catalog and the dispatcher (ToolExecutor).                     *)
(*                                                                         *)
(* A call either returns a value or raises: Ok and Raise are the two       *)
(* outcomes, and calls is the sequence of GitHubClient methods invoked.    *)
(***************************************************************************)
\* A catalog with a schema that has no dispatch target.
TOOL_SCHEMAS_with_merge ==
    << "list_pull_requests", "get_pull_request", "get_pr_reviews",
       "get_pr_comments", "get_pr_checks", "get_pr_files",
       "search_pull_requests", "get_repo_activity", "get_pr_ready_status",
       "merge_pull_request" >>

\* A catalog that lists one name twice.
TOOL_SCHEMAS_with_duplicate ==
    << "list_pull_requests", "get_pull_request", "get_pr_reviews",
       "get_pr_comments", "get_pr_checks", "get_pr_files",
       "search_pull_requests", "get_repo_activity", "get_pr_ready_status",
       "get_pull_request" >>

\* The names of TOOL_SCHEMAS, in the order of the list.
TOOL_SCHEMAS ==
    << "list_pull_requests", "get_pull_request", "get_pr_reviews",
       "get_pr_comments", "get_pr_checks", "get_pr_files",
       "search_pull_requests", "get_repo_activity", "get_pr_ready_status" >>

Ok(v, calls) == [raised |-> FALSE, value |-> v, calls |-> calls]
Raise(cls, msg, calls) == [raised |-> TRUE, cls |-> cls, msg |-> msg, calls |-> calls]

\* The exception classes that "except Exception" catches; all those the
\* dispatcher, the client and json.dumps raise are among them.
ExceptionClasses == {"Exception", "ValueError", "KeyError", "TypeError", "HTTPStatusError"}

\* str(KeyError(key))
KeyErrorMsg(key) == <<"'", key, "'">>

\* GitHubClient._parse_repo: the repository must split into two segments.
_parse_repo(repo) ==
    LET parts == Split(repo)
    IN  IF Len(parts) # 2
        THEN Raise("ValueError",
                   <<"Invalid repo format: ">> \o repo \o <<". Expected 'owner/repo'">>, <<>>)
        ELSE Ok(<<parts[1], parts[2]>>, <<>>)

\* A request with a method other than GET.
_get_as_post(path, params) == [method |-> "POST", path |-> path, params |-> params]

\* GitHubClient._get: self._client.get(path, params=params)
_get(path, params) == [method |-> "GET", path |-> path, params |-> params]

\* f"/repos/{owner}/{repo_name}" of a repository that parses
RepoPath(repo) ==
    LET parts == _parse_repo(repo).value
    IN  <<"/repos/">> \o parts[1] \o <<"/">> \o parts[2]

\* The query scoped to the organisation first, to the repository otherwise.
search_query_org_first(query, repo, org) ==
    <<"is:pr ">> \o query \o
        (IF Truthy(org) THEN <<" org:">> \o org
         ELSE IF Truthy(repo) THEN <<" repo:">> \o repo
         ELSE <<>>)

\* The query string search_pull_requests builds: repo, when given, is
\* appended as it is.
search_query(query, repo, org) ==
    <<"is:pr ">> \o query \o
        (IF Truthy(repo) THEN <<" repo:">> \o repo
         ELSE IF Truthy(org) THEN <<" org:">> \o org
         ELSE <<>>)

\* GitHubClient.search_pull_requests: one request, the repository unparsed.
SearchRequests(query, repo, org, per_page) ==
    << _get(<<"/search/issues">>,
            [q |-> search_query(query, repo, org), per_page |-> per_page]) >>

\* The requests a GitHubClient method sends when none of them fails; a
\* method that parses the repository sends none when the parse raises.
HttpRequests(c) ==
    IF c.op = "search_pull_requests"
    THEN SearchRequests(c.query, c.repo, c.org, c.per_page)
    ELSE IF _parse_repo(c.repo).raised THEN <<>>
    ELSE CASE c.op = "list_pull_requests" ->
                IF Truthy(c.author)
                THEN SearchRequests(<<"is:">> \o c.state \o <<" author:">> \o c.author,
                                    c.repo, None, c.per_page)
                ELSE << _get(RepoPath(c.repo) \o <<"/pulls">>,
                             [state |-> c.state, sort |-> <<"updated">>,
                              direction |-> <<"desc">>, per_page |-> c.per_page]) >>
           [] c.op = "get_pull_request" ->
                << _get(RepoPath(c.repo) \o <<"/pulls/", ToString(c.pr_number)>>, None) >>
           [] c.op = "get_pr_reviews" ->
                << _get(RepoPath(c.repo)
                            \o <<"/pulls/", ToString(c.pr_number), "/reviews">>, None) >>
           [] c.op = "get_pr_comments" ->
                << _get(RepoPath(c.repo)
                            \o <<"/issues/", ToString(c.pr_number), "/comments">>, None),
                   _get(RepoPath(c.repo)
                            \o <<"/pulls/", ToString(c.pr_number), "/comments">>, None) >>
           [] c.op = "get_pr_checks" ->
                << _get(RepoPath(c.repo) \o <<"/pulls/", ToString(c.pr_number)>>, None),
                   _get(RepoPath(c.repo) \o <<"/commits/", "{head_sha}", "/check-runs">>,
                        None) >>
           [] c.op = "get_pr_files" ->
                << _get(RepoPath(c.repo)
                            \o <<"/pulls/", ToString(c.pr_number), "/files">>, None) >>

\* What each GitHubClient method returns: a pydantic model or a list of them.
ClientResultKind(op) ==
    IF op \in {"get_pull_request", "get_pr_checks"} THEN "model" ELSE "list"

\* The k-th GitHubClient call of one execution.  Every method that takes a
\* repository parses it before any request; gh is the behaviour of GitHub
\* for this execution: the call that fails (0 for none), the failure's
\* message, and whether the payload can be serialised.
Request(c, k, gh) ==
    IF gh.fail_at = k
    THEN Raise("HTTPStatusError", gh.msg, <<>>)
    ELSE Ok([kind |-> ClientResultKind(c.op), of |-> c.op,
             serializable |-> gh.serializable], <<>>)

AfterParse(parsed, c, k, gh) ==
    IF parsed.raised THEN parsed ELSE Request(c, k, gh)

ClientCall(c, k, gh) ==
    IF c.op = "search_pull_requests" THEN Request(c, k, gh)
    ELSE AfterParse(_parse_repo(c.repo), c, k, gh)

\* The calls of a plan made in order until one raises.
RECURSIVE RunCalls(_, _, _, _)
\* A call that failed is made once more, and fails again.
AfterCall_retrying(res, plan, k, gh, done) ==
    IF res.raised THEN Raise(res.cls, res.msg, Append(done, plan[k]))
    ELSE RunCalls(plan, k + 1, gh, done)

AfterCall(res, plan, k, gh, done) ==
    IF res.raised THEN Raise(res.cls, res.msg, done)
    ELSE RunCalls(plan, k + 1, gh, done)

RunCalls(plan, k, gh, done) ==
    IF k > Len(plan) THEN Ok(done, done)
    ELSE AfterCall(ClientCall(plan[k], k, gh), plan, k, gh, Append(done, plan[k]))

Min(a, b) == IF a < b THEN a ELSE b

\* The configured default taking precedence over the repo of the input.
_resolve_repo_default_first(repo, default) ==
    IF Truthy(default) THEN Ok(default, <<>>)
    ELSE IF Truthy(repo) THEN Ok(repo, <<>>)
    ELSE Raise("ValueError", <<"No repository specified and no default configured">>, <<>>)

\* ToolExecutor._resolve_repo
_resolve_repo(repo, default) ==
    IF Truthy(repo) THEN Ok(repo, <<>>)
    ELSE IF Truthy(default) THEN Ok(default, <<>>)
    ELSE Raise("ValueError", <<"No repository specified and no default configured">>, <<>>)

\* One GitHubClient call whose result is the tool's result.
ResultOf(res, kind, of, serializable) ==
    IF res.raised THEN res
    ELSE Ok([kind |-> kind, of |-> of, serializable |-> serializable], res.calls)

SingleCall(c, gh) ==
    ResultOf(RunCalls(<<c>>, 1, gh, <<>>), ClientResultKind(c.op), c.op, gh.serializable)

\* The tools that take input["pr_number"] after resolving the repository.
PrTool(op, input, default, gh) ==
    LET repo == _resolve_repo(Get(input, "repo", None), default)
    IN  IF repo.raised THEN repo
        ELSE IF ~Has(input, "pr_number")
        THEN Raise("KeyError", KeyErrorMsg("pr_number"), <<>>)
        ELSE SingleCall([op |-> op, repo |-> repo.value,
                         pr_number |-> input["pr_number"]], gh)

\* ToolExecutor._get_repo_activity: two listings, summarised in a dict.
_get_repo_activity(repo, gh) ==
    ResultOf(RunCalls(<< [op |-> "list_pull_requests", repo |-> repo,
                          state |-> <<"open">>, per_page |-> 20, author |-> None],
                         [op |-> "list_pull_requests", repo |-> repo,
                          state |-> <<"closed">>, per_page |-> 10, author |-> None] >>,
                      1, gh, <<>>),
             "dict", "get_repo_activity", TRUE)

\* ToolExecutor._get_pr_ready_status: three queries, summarised in a dict.
_get_pr_ready_status(repo, pr_number, gh) ==
    ResultOf(RunCalls(<< [op |-> "get_pull_request", repo |-> repo, pr_number |-> pr_number],
                         [op |-> "get_pr_reviews", repo |-> repo, pr_number |-> pr_number],
                         [op |-> "get_pr_checks", repo |-> repo, pr_number |-> pr_number] >>,
                      1, gh, <<>>),
             "dict", "get_pr_ready_status", TRUE)

\* A name outside the catalog answered with an empty listing.
UnknownTool_empty_listing(tool_name) ==
    Ok([kind |-> "list", of |-> tool_name, serializable |-> TRUE], <<>>)

\* case _: raise ValueError(f"Unknown tool: {tool_name}")
UnknownTool(tool_name) ==
    Raise("ValueError", <<"Unknown tool", ": ", tool_name>>, <<>>)

\* ToolExecutor._dispatch
_dispatch(tool_name, input, default, gh) ==
    CASE tool_name = "list_pull_requests" ->
           LET repo == _resolve_repo(Get(input, "repo", None), default)
           IN  IF repo.raised THEN repo
               ELSE SingleCall([op |-> "list_pull_requests", repo |-> repo.value,
                                state |-> Get(input, "state", <<"open">>),
                                per_page |-> Min(Get(input, "limit", 10), 30),
                                author |-> Get(input, "author", None)], gh)
      [] tool_name \in {"get_pull_request", "get_pr_reviews", "get_pr_comments",
                        "get_pr_checks"} ->
           PrTool(tool_name, input, default, gh)
      [] tool_name = "get_pr_files" ->
           LET repo == _resolve_repo(Get(input, "repo", None), default)
           IN  IF repo.raised THEN repo
               ELSE IF ~Has(input, "pr_number")
               THEN Raise("KeyError", KeyErrorMsg("pr_number"), <<>>)
               ELSE SingleCall([op |-> "get_pr_files", repo |-> repo.value,
                                pr_number |-> input["pr_number"],
                                include_patch |-> Get(input, "include_patches", FALSE)], gh)
      [] tool_name = "search_pull_requests" ->
           IF ~Has(input, "query")
           THEN Raise("KeyError", KeyErrorMsg("query"), <<>>)
           ELSE SingleCall([op |-> "search_pull_requests", query |-> input["query"],
                            repo |-> Get(input, "repo", None),
                            org |-> Get(input, "org", None),
                            per_page |-> Min(Get(input, "limit", 10), 30)], gh)
      [] tool_name = "get_repo_activity" ->
           LET repo == _resolve_repo(Get(input, "repo", None), default)
           IN  IF repo.raised THEN repo ELSE _get_repo_activity(repo.value, gh)
      [] tool_name = "get_pr_ready_status" ->
           LET repo == _resolve_repo(Get(input, "repo", None), default)
           IN  IF repo.raised THEN repo
               ELSE IF ~Has(input, "pr_number")
               THEN Raise("KeyError", KeyErrorMsg("pr_number"), <<>>)
               ELSE _get_pr_ready_status(repo.value, input["pr_number"], gh)
      [] OTHER ->
           UnknownTool(tool_name)

\* ToolExecutor._format_result: json.dumps of the model, the list or the dict.
_format_result(result) ==
    IF ~result.serializable
    THEN Raise("TypeError", <<"keys must be str, int, float, bool or None, not tuple">>, <<>>)
    ELSE IF result.kind = "model" THEN Ok(<<"{", result.of, "}">>, <<>>)
    ELSE IF result.kind = "list" THEN Ok(<<"[", result.of, "]">>, <<>>)
    ELSE Ok(<<"{", result.of, "}">>, <<>>)

\* f"Error executing {tool_name}: {e}"
ErrorText(tool_name, msg) == <<"Error executing ", tool_name, ": ">> \o msg

\* The except clause applied to what the try body did: an exception of a
\* caught class becomes the error text, any other leaves execute.
Caught(classes, tool_name, res, calls) ==
    IF ~res.raised THEN Ok(res.value, calls)
    ELSE IF res.cls \in classes THEN Ok(ErrorText(tool_name, res.msg), calls)
    ELSE Raise(res.cls, res.msg, calls)

\* The try body: dispatch, then format what dispatch returned.
TryBody(d) == IF d.raised THEN d ELSE _format_result(d.value)

Handled(classes, tool_name, d) == Caught(classes, tool_name, TryBody(d), d.calls)

\* A handler that catches only ValueError instead of Exception.
execute_catches_value_error(tool_name, tool_input, default, gh) ==
    Handled({"ValueError"}, tool_name, _dispatch(tool_name, tool_input, default, gh))

\* No handler at all: whatever dispatch or formatting raises leaves execute.
execute_unhandled(tool_name, tool_input, default, gh) ==
    Handled({}, tool_name, _dispatch(tool_name, tool_input, default, gh))

\* ToolExecutor.execute: try: dispatch, format; except Exception: the text.
execute(tool_name, tool_input, default, gh) ==
    Handled(ExceptionClasses, tool_name, _dispatch(tool_name, tool_input, default, gh))

(***************************************************************************)
(* The dispatcher of GitHubAgent.  agent.py calls                           *)
(* execute_tool(name, input, github); the function is modelled from the     *)
(* specification's dispatcher contract: it never raises, an unknown name    *)
(* yields "Error: Unknown tool '<name>'" and every other failure yields     *)
(* "Error executing <name>: <message>".                                     *)
(***************************************************************************)
execute_tool(tool_name, tool_input, gh) ==
    IF \A i \in 1..Len(TOOL_SCHEMAS) : TOOL_SCHEMAS[i] # tool_name
    THEN Ok(<<"Error: Unknown tool '", tool_name, "'">>, <<>>)
    ELSE Handled(ExceptionClasses, tool_name, _dispatch(tool_name, tool_input, None, gh))

(***************************************************************************)
(* The Model Inference Collaborator: what messages.create may answer.      *)
(* A response is a stop_reason and a sequence of content blocks.  Text     *)
(* blocks carry text; tool_use blocks carry id, name and input; thinking   *)
(* blocks carry neither.  A response that ends the turn holds no tool_use  *)
(* block: the API stops with tool_use when it emits one.                   *)
(***************************************************************************)
TextBlock(t) == [type |-> "text", text |-> t]
ToolUseBlock(id, name, input) ==
    [type |-> "tool_use", id |-> id, name |-> name, input |-> input]
ThinkingBlock == [type |-> "thinking"]

AcmeWidgets == <<"acme", "/", "widgets">>
TestRepo == <<"test", "/", "repo">>

TextBlocks == { TextBlock(<<"No open PRs.">>), TextBlock(<<"Found 3 open PRs.">>) }
ToolUseBlocks ==
    { ToolUseBlock("toolu_1", "list_pull_requests", EmptyDict),
      ToolUseBlock("toolu_2", "get_pr_checks",
                   [repo |-> AcmeWidgets, pr_number |-> 7]) }

SeqsUpTo(S, n) == UNION { [1..k -> S] : k \in 0..n }

EndTurnContents(n) == SeqsUpTo(TextBlocks \cup {ThinkingBlock}, n)
ToolUseContents(n) == SeqsUpTo(TextBlocks \cup {ThinkingBlock} \cup ToolUseBlocks, n)

\* stop_reason values other than end_turn and tool_use
OtherStops == {"max_tokens"}

\* What GitHub does during one tool execution in a run.
GhOk == [fail_at |-> 0, msg |-> <<>>, serializable |-> TRUE]
GhRateLimit == [fail_at |-> 1, msg |-> <<"rate limit">>, serializable |-> TRUE]
GhBehaviours == {GhOk, GhRateLimit}

UserMessages == { <<"List open PRs">> }

(***************************************************************************)
(* The conversation and the result.                                        *)
(***************************************************************************)
PR == "GitHubPRAgent"
GA == "GitHubAgent"
Callers == {1, 2}
SingleCaller == {1}

\* {"role": "user", "content": user_message}
UserTurn(msg) == [role |-> "user", kind |-> "message", content |-> msg]
\* Only the text blocks of the response kept in the assistant turn.
AssistantTurn_text_only(content) ==
    [role |-> "assistant", kind |-> "blocks",
     content |-> SelectSeq(content, LAMBDA b : b.type = "text")]

\* {"role": "assistant", "content": response.content}
AssistantTurn(content) == [role |-> "assistant", kind |-> "blocks", content |-> content]
\* {"role": "user", "content": tool_results}
ToolResultsTurn(results) == [role |-> "user", kind |-> "tool_results", content |-> results]

\* Every result keyed by the name of the tool instead of the block's id.
ToolResult_keyed_by_name(b, result) ==
    [type |-> "tool_result", tool_use_id |-> b.name, content |-> result]

\* {"type": "tool_result", "tool_use_id": block.id, "content": result}
ToolResult(b, result) ==
    [type |-> "tool_result", tool_use_id |-> b.id, content |-> result]

\* The record of a call without its input.
ToolCall_without_input(b) == [name |-> b.name, input |-> EmptyDict]

\* {"name": block.name, "input": block.input}
ToolCall(b) == [name |-> b.name, input |-> b.input]

AgentResult(resp, calls, its) ==
    [response |-> resp, tool_calls |-> calls, iterations |-> its]

NoOutcome == [kind |-> "none"]
Returned(result) == [kind |-> "returned", result |-> result]
Raised(cls, msg) == [kind |-> "raised", cls |-> cls, msg |-> msg]

\* hasattr(block, "text")
HasText(b) == "text" \in DOMAIN b

\* [block.text for block in content if hasattr(block, "text")]
RECURSIVE Texts(_)
Texts(content) ==
    IF content = <<>> THEN <<>>
    ELSE IF HasText(Head(content)) THEN <<Head(content).text>> \o Texts(Tail(content))
    ELSE Texts(Tail(content))

\* The texts joined by a space instead of a newline.
_extract_text_space_joined(content) == Join(<<" ">>, Texts(content))

\* GitHubPRAgent._extract_text
_extract_text(content) == Join(<<"\n">>, Texts(content))

\* GitHubAgent.run: "".join(b.text for b in response.content if hasattr(b, "text"))
JoinText(content) == Concat(Texts(content))

FinalText(content) == IF impl = PR THEN _extract_text(content) ELSE JoinText(content)

\* The tool_use blocks of a response, in order.
RECURSIVE ToolUses(_)
ToolUses(content) ==
    IF content = <<>> THEN <<>>
    ELSE IF Head(content).type = "tool_use" THEN <<Head(content)>> \o ToolUses(Tail(content))
    ELSE ToolUses(Tail(content))

ExhaustionMessage ==
    IF impl = PR
    THEN <<"I've done a lot of research but haven't reached a final answer. Here's what I found so far...">>
    ELSE <<"Reached maximum iterations without a final answer.">>

\* The loop test off by one: iterations <= self.max_iterations.
LoopGuard_inclusive(its, max) == its <= max

\* while iterations < self.max_iterations / for iteration in range(self.max_iterations)
LoopGuard(its, max) == its < max

\* The exhaustion result reporting one iteration too many.
ExhaustedIterations_plus_one(its) == its + 1

\* The iterations field of the exhaustion result.
ExhaustedIterations(its) == IF impl = PR THEN its ELSE max_iterations

\* The else branch missing from both loops.
UnexpectedStopIgnored == FALSE

\* Whether the loop has an else branch that raises on an unexpected
\* stop_reason: GitHubPRAgent has, GitHubAgent has none.
UnexpectedStopRaises == impl = PR

\* self.conversation.append({"role": "user", "content": user_message}) with
\* the history discarded first: the run starts on a conversation of its own.
EnterRun_fresh(conv, user_message) == <<UserTurn(user_message)>>

\* The message appended on entry and again by the first pass of the loop.
EnterRun_twice(conv, user_message) ==
    Append(Append(conv, UserTurn(user_message)), UserTurn(user_message))

\* self.conversation.append({"role": "user", "content": user_message})
EnterRun(conv, user_message) == Append(conv, UserTurn(user_message))

\* Only the latest turn passed to the model.
Messages_last_turn(conv) == <<conv[Len(conv)]>>

\* messages=self.conversation
Messages(conv) == conv

\* model: str = "claude-sonnet-4-20250514"
DefaultModel == <<"claude-sonnet-4-20250514">>

NoScript == [fresh |-> TRUE, message |-> <<>>, events |-> <<>>]

Finished == {"IDLE", "DONE", "EXHAUSTED", "PROTOCOL_ERROR", "RAISED"}
Quiescent == \A r \in Callers : pc[r] \in Finished

Max0(n) == IF n < 0 THEN 0 ELSE n

(***************************************************************************)
(* The agent loop.  One action per stretch of run between two calls out    *)
(* of the loop (the model, the dispatcher).                                *)
(***************************************************************************)
ExecIdle ==
    [tool_name |-> "none", tool_input |-> EmptyDict, default |-> None,
     gh |-> GhOk, done |-> FALSE, result |-> Ok(<<>>, <<>>)]

Init ==
    /\ impl \in {PR, GA}
    /\ model = DefaultModel
    /\ catalog = TOOL_SCHEMAS
    /\ max_iterations \in (0 - 1)..MaxIter
    /\ default_repo \in IF impl = PR THEN {None, TestRepo} ELSE {None}
    /\ conversation = <<>>
    /\ pc = [r \in Callers |-> "IDLE"]
    /\ iterations = [r \in Callers |-> 0]
    /\ tool_calls = [r \in Callers |-> <<>>]
    /\ tool_results = [r \in Callers |-> <<>>]
    /\ response = [r \in Callers |-> <<>>]
    /\ block = [r \in Callers |-> 0]
    /\ outcome = [r \in Callers |-> NoOutcome]
    /\ model_calls = [r \in Callers |-> 0]
    /\ last_stop = [r \in Callers |-> "none"]
    /\ only_tool_use = [r \in Callers |-> TRUE]
    /\ emitted = [r \in Callers |-> <<>>]
    /\ executions = [r \in Callers |-> 0]
    /\ runs_started = 0
    /\ calls_total = 0
    /\ blocks_total = 0
    /\ sent = [r \in Callers |-> <<>>]
    /\ script = [r \in Callers |-> NoScript]
    /\ pristine = TRUE
    /\ call = ExecIdle

\* run, up to the first loop test: the message is appended and the locals set.
Run(r, user_message) ==
    /\ pc[r] \in Finished
    /\ runs_started < MaxRuns
    /\ calls_total + Max0(max_iterations) <= MaxModelCalls
    /\ conversation' = EnterRun(conversation, user_message)
    /\ tool_calls' = [tool_calls EXCEPT ![r] = <<>>]
    /\ iterations' = [iterations EXCEPT ![r] = 0]
    /\ pc' = [pc EXCEPT ![r] = "AWAITING_MODEL"]
    /\ tool_results' = [tool_results EXCEPT ![r] = <<>>]
    /\ response' = [response EXCEPT ![r] = <<>>]
    /\ block' = [block EXCEPT ![r] = 0]
    /\ outcome' = [outcome EXCEPT ![r] = NoOutcome]
    /\ model_calls' = [model_calls EXCEPT ![r] = 0]
    /\ last_stop' = [last_stop EXCEPT ![r] = "none"]
    /\ only_tool_use' = [only_tool_use EXCEPT ![r] = TRUE]
    /\ emitted' = [emitted EXCEPT ![r] = <<>>]
    /\ executions' = [executions EXCEPT ![r] = 0]
    /\ runs_started' = runs_started + 1
    /\ sent' = [sent EXCEPT ![r] = <<>>]
    /\ script' = [script EXCEPT ![r] = [fresh |-> pristine,
                                        message |-> user_message,
                                        events |-> <<>>]]
    /\ pristine' = FALSE
    /\ UNCHANGED <<impl, model, catalog, max_iterations, default_repo, calls_total, blocks_total, call>>

\* What every model invocation does to the loop counter and the history.
Invoke(r, stop, content) ==
    /\ pc[r] = "AWAITING_MODEL"
    /\ LoopGuard(iterations[r], max_iterations)
    /\ Len(content) <= MaxBlocksTotal - blocks_total
    /\ iterations' = [iterations EXCEPT ![r] = @ + 1]
    /\ model_calls' = [model_calls EXCEPT ![r] = @ + 1]
    /\ calls_total' = calls_total + 1
    /\ blocks_total' = blocks_total + Len(content)
    /\ last_stop' = [last_stop EXCEPT ![r] = stop]
    /\ only_tool_use' = [only_tool_use EXCEPT ![r] = @ /\ stop = "tool_use"]
    /\ sent' = [sent EXCEPT ![r] = Messages(conversation)]
    /\ script' = [script EXCEPT ![r].events =
                    Append(@, [stop |-> stop, content |-> content, gh |-> <<>>])]

\* The model answers end_turn: the text is extracted, the response appended
\* and the result returned.
ModelEndTurn(r, content) ==
    /\ Invoke(r, "end_turn", content)
    /\ conversation' = Append(conversation, AssistantTurn(content))
    /\ response' = [response EXCEPT ![r] = content]
    /\ outcome' = [outcome EXCEPT ![r] =
                     Returned(AgentResult(FinalText(content), tool_calls[r],
                                          iterations[r] + 1))]
    /\ pc' = [pc EXCEPT ![r] = "DONE"]
    /\ UNCHANGED <<impl, model, catalog, max_iterations, default_repo, tool_calls, tool_results,
                   block, emitted, executions, runs_started, pristine, call>>

\* The model answers tool_use: the response is appended and the for loop
\* over its blocks begins.
ModelToolUse(r, content) ==
    /\ Invoke(r, "tool_use", content)
    /\ conversation' = Append(conversation, AssistantTurn(content))
    /\ response' = [response EXCEPT ![r] = content]
    /\ tool_results' = [tool_results EXCEPT ![r] = <<>>]
    /\ block' = [block EXCEPT ![r] = 1]
    /\ emitted' = [emitted EXCEPT ![r] =
                     @ \o [i \in 1..Len(ToolUses(content)) |->
                             [name |-> ToolUses(content)[i].name,
                              input |-> ToolUses(content)[i].input]]]
    /\ pc' = [pc EXCEPT ![r] = "EXECUTING_TOOLS"]
    /\ UNCHANGED <<impl, model, catalog, max_iterations, default_repo, tool_calls, outcome,
                   executions, runs_started, pristine, call>>

\* The unexpected response appended as an assistant turn before the error.
ModelOther_appending(r, stop) ==
    /\ Invoke(r, stop, <<>>)
    /\ response' = [response EXCEPT ![r] = <<>>]
    /\ conversation' = Append(conversation, AssistantTurn(<<>>))
    /\ IF UnexpectedStopRaises
       THEN /\ outcome' = [outcome EXCEPT ![r] =
                             Raised("RuntimeError", <<"Unexpected stop reason: ", stop>>)]
            /\ pc' = [pc EXCEPT ![r] = "PROTOCOL_ERROR"]
       ELSE UNCHANGED <<outcome, pc>>
    /\ UNCHANGED <<impl, model, catalog, max_iterations, default_repo, tool_calls,
                   tool_results, block, emitted, executions, runs_started, pristine, call>>

\* The model answers with another stop_reason.  GitHubPRAgent raises
\* RuntimeError; GitHubAgent has no branch for it and goes round the loop.
ModelOther(r, stop) ==
    /\ Invoke(r, stop, <<>>)
    /\ response' = [response EXCEPT ![r] = <<>>]
    /\ IF UnexpectedStopRaises
       THEN /\ outcome' = [outcome EXCEPT ![r] =
                             Raised("RuntimeError", <<"Unexpected stop reason: ", stop>>)]
            /\ pc' = [pc EXCEPT ![r] = "PROTOCOL_ERROR"]
       ELSE UNCHANGED <<outcome, pc>>
    /\ UNCHANGED <<impl, model, catalog, max_iterations, default_repo, conversation, tool_calls,
                   tool_results, block, emitted, executions, runs_started, pristine, call>>

\* The loop test fails: the exhaustion result is returned.
Exhausted(r) ==
    /\ pc[r] = "AWAITING_MODEL"
    /\ ~LoopGuard(iterations[r], max_iterations)
    /\ outcome' = [outcome EXCEPT ![r] =
                     Returned(AgentResult(ExhaustionMessage, tool_calls[r],
                                          ExhaustedIterations(iterations[r])))]
    /\ pc' = [pc EXCEPT ![r] = "EXHAUSTED"]
    /\ UNCHANGED <<impl, model, catalog, max_iterations, default_repo, conversation, iterations,
                   tool_calls, tool_results, response, block, model_calls,
                   last_stop, only_tool_use, emitted, executions, runs_started, pristine,
                   calls_total, blocks_total, sent, script, call>>

\* for block in response.content: a block that is no tool_use is passed over.
SkipBlock(r) ==
    /\ pc[r] = "EXECUTING_TOOLS"
    /\ block[r] <= Len(response[r])
    /\ response[r][block[r]].type # "tool_use"
    /\ block' = [block EXCEPT ![r] = @ + 1]
    /\ UNCHANGED <<impl, model, catalog, max_iterations, default_repo, conversation, pc, iterations,
                   tool_calls, tool_results, response, outcome, model_calls,
                   last_stop, only_tool_use, emitted, executions, runs_started, pristine,
                   calls_total, blocks_total, sent, script, call>>

\* The dispatcher started without awaiting it: the loop goes on to the next
\* block while the call is in flight.
StartTool_not_awaited(r) ==
    /\ pc[r] = "EXECUTING_TOOLS"
    /\ block[r] <= Len(response[r])
    /\ response[r][block[r]].type = "tool_use"
    /\ tool_calls' = [tool_calls EXCEPT ![r] = Append(@, ToolCall(response[r][block[r]]))]
    /\ executions' = [executions EXCEPT ![r] = @ + 1]
    /\ block' = [block EXCEPT ![r] = @ + 1]
    /\ UNCHANGED <<impl, model, catalog, max_iterations, default_repo, conversation, iterations,
                   tool_results, response, pc, outcome, model_calls, last_stop,
                   only_tool_use, emitted, runs_started, pristine, calls_total,
                   blocks_total, sent, script, call>>

\* A tool_use block: the call is recorded and the dispatcher awaited.
StartTool(r) ==
    /\ pc[r] = "EXECUTING_TOOLS"
    /\ block[r] <= Len(response[r])
    /\ response[r][block[r]].type = "tool_use"
    /\ tool_calls' = [tool_calls EXCEPT ![r] = Append(@, ToolCall(response[r][block[r]]))]
    /\ executions' = [executions EXCEPT ![r] = @ + 1]
    /\ pc' = [pc EXCEPT ![r] = "TOOL_IN_FLIGHT"]
    /\ UNCHANGED <<impl, model, catalog, max_iterations, default_repo, conversation, iterations,
                   tool_results, response, block, outcome, model_calls, last_stop,
                   only_tool_use, emitted, runs_started, pristine, calls_total,
                   blocks_total, sent, script, call>>

\* The dispatcher of the instance's class, applied to a tool_use block.
Dispatcher(b, gh) ==
    IF impl = PR THEN execute(b.name, b.input, default_repo, gh)
    ELSE execute_tool(b.name, b.input, gh)

\* The dispatcher returns: its text becomes the block's tool_result.  Were
\* it to raise, the exception would leave run.
Deliver(r, b, res) ==
    IF res.raised
    THEN /\ outcome' = [outcome EXCEPT ![r] = Raised(res.cls, res.msg)]
         /\ pc' = [pc EXCEPT ![r] = "RAISED"]
         /\ UNCHANGED <<tool_results, block>>
    ELSE /\ tool_results' = [tool_results EXCEPT ![r] =
                               Append(@, ToolResult(b, res.value))]
         /\ block' = [block EXCEPT ![r] = @ + 1]
         /\ pc' = [pc EXCEPT ![r] = "EXECUTING_TOOLS"]
         /\ UNCHANGED outcome

ToolReturns(r, gh) ==
    /\ pc[r] = "TOOL_IN_FLIGHT"
    /\ Deliver(r, response[r][block[r]], Dispatcher(response[r][block[r]], gh))
    /\ script' = [script EXCEPT ![r].events[Len(script[r].events)].gh = Append(@, gh)]
    /\ UNCHANGED <<impl, model, catalog, max_iterations, default_repo, conversation, iterations,
                   tool_calls, response, model_calls, last_stop, only_tool_use,
                   emitted, executions, runs_started, pristine, calls_total, blocks_total,
                   sent, call>>

\* The user turn appended only when there is a result to report.
AppendResults_unless_empty(r) ==
    /\ pc[r] = "EXECUTING_TOOLS"
    /\ block[r] > Len(response[r])
    /\ conversation' = IF tool_results[r] = <<>> THEN conversation
                       ELSE Append(conversation, ToolResultsTurn(tool_results[r]))
    /\ pc' = [pc EXCEPT ![r] = "AWAITING_MODEL"]
    /\ UNCHANGED <<impl, model, catalog, max_iterations, default_repo, iterations, tool_calls,
                   tool_results, response, block, outcome, model_calls, last_stop,
                   only_tool_use, emitted, executions, runs_started, pristine, calls_total,
                   blocks_total, sent, script, call>>

\* The results written to a history the run keeps for itself: what it sent
\* to the model, its assistant turn and the results.
AppendResults_own_history(r) ==
    /\ pc[r] = "EXECUTING_TOOLS"
    /\ block[r] > Len(response[r])
    /\ conversation' = Append(Append(sent[r], AssistantTurn(response[r])),
                              ToolResultsTurn(tool_results[r]))
    /\ pc' = [pc EXCEPT ![r] = "AWAITING_MODEL"]
    /\ UNCHANGED <<impl, model, catalog, max_iterations, default_repo, iterations, tool_calls,
                   tool_results, response, block, outcome, model_calls, last_stop,
                   only_tool_use, emitted, executions, runs_started, pristine, calls_total,
                   blocks_total, sent, script, call>>

\* The for loop is over: the results are appended as one user turn and the
\* loop test comes next.
AppendResults(r) ==
    /\ pc[r] = "EXECUTING_TOOLS"
    /\ block[r] > Len(response[r])
    /\ conversation' = Append(conversation, ToolResultsTurn(tool_results[r]))
    /\ pc' = [pc EXCEPT ![r] = "AWAITING_MODEL"]
    /\ UNCHANGED <<impl, model, catalog, max_iterations, default_repo, iterations, tool_calls,
                   tool_results, response, block, outcome, model_calls, last_stop,
                   only_tool_use, emitted, executions, runs_started, pristine, calls_total,
                   blocks_total, sent, script, call>>

\* reset, which also resets the counters and the list of calls of the runs.
Reset_and_counters ==
    /\ conversation' = <<>>
    /\ pristine' = TRUE
    /\ iterations' = [r \in Callers |-> 0]
    /\ tool_calls' = [r \in Callers |-> <<>>]
    /\ UNCHANGED <<impl, model, catalog, max_iterations, default_repo, pc, tool_results,
                   response, block, outcome, model_calls, last_stop, only_tool_use,
                   emitted, executions, runs_started, calls_total, blocks_total,
                   sent, script, call>>

\* reset, which keeps the first turn of the conversation.
Reset_keeping_first_turn ==
    /\ conversation' = SubSeq(conversation, 1, 1)
    /\ pristine' = TRUE
    /\ UNCHANGED <<impl, model, catalog, max_iterations, default_repo, pc, iterations,
                   tool_calls, tool_results, response, block, outcome, model_calls,
                   last_stop, only_tool_use, emitted, executions, runs_started,
                   calls_total, blocks_total, sent, script, call>>

\* reset: self.conversation = []
Reset ==
    /\ conversation' = <<>>
    /\ pristine' = TRUE
    /\ UNCHANGED <<impl, model, catalog, max_iterations, default_repo, pc, iterations, tool_calls,
                   tool_results, response, block, outcome, model_calls, last_stop,
                   only_tool_use, emitted, executions, runs_started, calls_total,
                   blocks_total, sent, script, call>>

\* One caller drives the instance: run and reset are called between runs.
Next ==
    \/ \E r \in SingleCaller, m \in UserMessages : Quiescent /\ Run(r, m)
    \/ \E r \in SingleCaller, c \in EndTurnContents(MaxBlocksTotal) : ModelEndTurn(r, c)
    \/ \E r \in SingleCaller, c \in ToolUseContents(MaxBlocksTotal) : ModelToolUse(r, c)
    \/ \E r \in SingleCaller, s \in OtherStops : ModelOther(r, s)
    \/ \E r \in SingleCaller : Exhausted(r)
    \/ \E r \in SingleCaller : SkipBlock(r)
    \/ \E r \in SingleCaller : StartTool(r)
    \/ \E r \in SingleCaller, gh \in GhBehaviours : ToolReturns(r, gh)
    \/ \E r \in SingleCaller : AppendResults(r)
    \/ Quiescent /\ conversation # <<>> /\ Reset

Spec == Init /\ [][Next]_vars

\* A run in flight takes its next step: the model answers every invocation
\* and the dispatcher returns from every call.
RunStep ==
    \E r \in SingleCaller :
        \/ \E c \in EndTurnContents(MaxBlocksTotal) : ModelEndTurn(r, c)
        \/ \E c \in ToolUseContents(MaxBlocksTotal) : ModelToolUse(r, c)
        \/ \E st \in OtherStops : ModelOther(r, st)
        \/ Exhausted(r)
        \/ SkipBlock(r)
        \/ StartTool(r)
        \/ \E gh \in GhBehaviours : ToolReturns(r, gh)
        \/ AppendResults(r)

SpecFair == Spec /\ WF_vars(RunStep)

(***************************************************************************)
(* reset called while a run is suspended.  run is a coroutine and gives up *)
(* control only where it awaits the dispatcher, so that is where another   *)
(* task of the same event loop can call reset on the instance.             *)
(***************************************************************************)
ResetInFlight ==
    /\ \E r \in SingleCaller : pc[r] = "TOOL_IN_FLIGHT"
    /\ conversation # <<>>
    /\ Reset

NextInFlight ==
    \/ Next
    \/ ResetInFlight

SpecInFlight == Init /\ [][NextInFlight]_vars

(***************************************************************************)
(* Two callers on one instance.  The coroutines share one event loop: a    *)
(* caller runs from one await of the dispatcher to the next without        *)
(* interruption, so it takes a step only while every other run is finished *)
(* or suspended at its await, and so does a call of reset.                 *)
(***************************************************************************)
Suspended(r) == pc[r] = "TOOL_IN_FLIGHT"

OnLoop(r) == \A q \in Callers \ {r} : pc[q] \in Finished \/ Suspended(q)

NextConcurrent ==
    \/ \E r \in Callers, m \in UserMessages : OnLoop(r) /\ Run(r, m)
    \/ \E r \in Callers, c \in EndTurnContents(MaxBlocksTotal) :
           OnLoop(r) /\ ModelEndTurn(r, c)
    \/ \E r \in Callers, c \in ToolUseContents(MaxBlocksTotal) :
           OnLoop(r) /\ ModelToolUse(r, c)
    \/ \E r \in Callers, st \in OtherStops : OnLoop(r) /\ ModelOther(r, st)
    \/ \E r \in Callers : OnLoop(r) /\ Exhausted(r)
    \/ \E r \in Callers : OnLoop(r) /\ SkipBlock(r)
    \/ \E r \in Callers : OnLoop(r) /\ StartTool(r)
    \/ \E r \in Callers, gh \in GhBehaviours : OnLoop(r) /\ ToolReturns(r, gh)
    \/ \E r \in Callers : OnLoop(r) /\ AppendResults(r)
    \/ /\ \A q \in Callers : pc[q] \in Finished \/ Suspended(q)
       /\ conversation # <<>>
       /\ Reset

SpecConcurrent == Init /\ [][NextConcurrent]_vars

(***************************************************************************)
(* The dispatcher alone: one execute call on every tool name, input,       *)
(* default repository and behaviour of GitHub.                             *)
(***************************************************************************)
ExecNames ==
    { TOOL_SCHEMAS[i] : i \in 1..Len(TOOL_SCHEMAS) }
        \cup {"nonexistent_tool", "merge_pull_request"}
ExecInputs ==
    { EmptyDict,
      [repo |-> AcmeWidgets],
      [repo |-> <<>>],
      [pr_number |-> 7],
      [repo |-> AcmeWidgets, pr_number |-> 7],
      [repo |-> <<"invalid-format">>, pr_number |-> 7],
      [repo |-> AcmeWidgets, limit |-> 50],
      [repo |-> AcmeWidgets, limit |-> 0],
      [repo |-> AcmeWidgets, limit |-> 0 - 5],
      [repo |-> AcmeWidgets, author |-> <<"octocat">>],
      [query |-> <<"is:open">>],
      [query |-> <<"is:open">>, repo |-> <<"invalid-format">>],
      [query |-> <<"is:open">>, org |-> <<"acme">>],
      [query |-> <<"is:open">>, repo |-> <<>>, org |-> <<"acme">>],
      [query |-> <<"is:open">>, repo |-> AcmeWidgets, org |-> <<"acme">>] }
ExecGh ==
    [fail_at : 0..3, msg : { <<"API rate limit">> }, serializable : BOOLEAN]

InitExec ==
    /\ impl = PR
    /\ model = DefaultModel
    /\ catalog = TOOL_SCHEMAS
    /\ max_iterations = 0
    /\ default_repo = None
    /\ conversation = <<>>
    /\ pc = [r \in Callers |-> "IDLE"]
    /\ iterations = [r \in Callers |-> 0]
    /\ tool_calls = [r \in Callers |-> <<>>]
    /\ tool_results = [r \in Callers |-> <<>>]
    /\ response = [r \in Callers |-> <<>>]
    /\ block = [r \in Callers |-> 0]
    /\ outcome = [r \in Callers |-> NoOutcome]
    /\ model_calls = [r \in Callers |-> 0]
    /\ last_stop = [r \in Callers |-> "none"]
    /\ only_tool_use = [r \in Callers |-> TRUE]
    /\ emitted = [r \in Callers |-> <<>>]
    /\ executions = [r \in Callers |-> 0]
    /\ runs_started = 0
    /\ calls_total = 0
    /\ blocks_total = 0
    /\ sent = [r \in Callers |-> <<>>]
    /\ script = [r \in Callers |-> NoScript]
    /\ pristine = TRUE
    /\ call \in [tool_name : ExecNames, tool_input : ExecInputs,
                 default : {None, <<>>, TestRepo}, gh : ExecGh,
                 done : {FALSE}, result : {Ok(<<>>, <<>>)}]

Execute ==
    /\ ~call.done
    /\ call' = [call EXCEPT !.done = TRUE,
                            !.result = execute(call.tool_name, call.tool_input,
                                               call.default, call.gh)]
    /\ UNCHANGED <<impl, model, catalog, max_iterations, default_repo, conversation, pc, iterations,
                   tool_calls, tool_results, response, block, outcome, model_calls,
                   last_stop, only_tool_use, emitted, executions, runs_started, pristine,
                   calls_total, blocks_total, sent, script>>

NextExec == Execute

SpecExec == InitExec /\ [][NextExec]_vars

(***************************************************************************)
(* The GitHub client alone: what get_pr_checks and get_pr_comments make of *)
(* the JSON GitHub answers with, and what get_pr_ready_status makes of the *)
(* client's answers.  A JSON object is a function of its keys; *)
(* a key can be absent, and null is None.  An optional value is a sequence *)
(* so that it compares with None: the line 12 is <<"12">>.  Creation times   *)
(* are numbers, ordered as the parsed datetimes are.                       *)
(***************************************************************************)
CheckStatuses == { <<"queued">>, <<"in_progress">>, <<"completed">> }
CheckConclusions == { None, <<"success">>, <<"failure">> }

\* The check runs GitHub can report: conclusion is a key that can be absent.
CheckRunsJson ==
    [name : { <<"ci">> }, status : CheckStatuses, conclusion : CheckConclusions]
        \cup [name : { <<"ci">> }, status : CheckStatuses]

\* CheckRun(name=run["name"], status=run["status"], conclusion=run.get("conclusion"))
CheckRun(run) ==
    [name |-> run.name, status |-> run.status,
     conclusion |-> Get(run, "conclusion", None)]

\* Only a conclusion of failure counts as failed; the others are not counted.
CountedAs_failure_only(check) ==
    IF check.status # <<"completed">> THEN "pending"
    ELSE IF check.conclusion = <<"success">> THEN "passed"
    ELSE IF check.conclusion = <<"failure">> THEN "failed"
    ELSE "none"

\* The counter the loop of get_pr_checks increments for a check.
CountedAs(check) ==
    IF check.status # <<"completed">> THEN "pending"
    ELSE IF check.conclusion = <<"success">> THEN "passed"
    ELSE "failed"

\* The value of a counter after the loop over the runs.
RECURSIVE Tally(_, _)
Tally(runs, counter) ==
    IF runs = <<>> THEN 0
    ELSE (IF CountedAs(CheckRun(Head(runs))) = counter THEN 1 ELSE 0)
             + Tally(Tail(runs), counter)

\* GitHubClient.get_pr_checks, from the JSON of the check-runs request on.
get_pr_checks(data) ==
    LET runs == Get(data, "check_runs", <<>>)
    IN  [total |-> Len(runs),
         passed |-> Tally(runs, "passed"),
         failed |-> Tally(runs, "failed"),
         pending |-> Tally(runs, "pending"),
         checks |-> [i \in 1..Len(runs) |-> CheckRun(runs[i])]]

IssueCommentsJson ==
    [user : { <<"octocat">> }, body : { <<"LGTM">> }, created_at : 1..MaxTime]
ReviewCommentsJson ==
    [user : { <<"octocat">> }, body : { <<"nit">> }, created_at : 1..MaxTime,
     path : { <<"src/app.py">> }, line : { <<"12">>, None }]

\* Comment(user=..., body=..., created_at=...): path and line default to None.
IssueComment(c) ==
    [user |-> c.user, body |-> c.body, created_at |-> c.created_at,
     path |-> None, line |-> None]

\* Comment(..., path=c.get("path"), line=c.get("line"))
ReviewComment(c) ==
    [user |-> c.user, body |-> c.body, created_at |-> c.created_at,
     path |-> Get(c, "path", None), line |-> Get(c, "line", None)]

\* Insertion into a list sorted latest first.
RECURSIVE InsertByCreatedAt_descending(_, _)
InsertByCreatedAt_descending(c, sorted) ==
    IF sorted = <<>> THEN <<c>>
    ELSE IF Head(sorted).created_at >= c.created_at
    THEN <<Head(sorted)>> \o InsertByCreatedAt_descending(c, Tail(sorted))
    ELSE <<c>> \o sorted

\* list.sort is stable: a comment goes after those created no later.
RECURSIVE InsertByCreatedAt(_, _)
InsertByCreatedAt(c, sorted) ==
    IF sorted = <<>> THEN <<c>>
    ELSE IF Head(sorted).created_at <= c.created_at
    THEN <<Head(sorted)>> \o InsertByCreatedAt(c, Tail(sorted))
    ELSE <<c>> \o sorted

\* comments.sort(key=lambda x: x.created_at)
RECURSIVE SortByCreatedAt(_, _)
SortByCreatedAt(comments, sorted) ==
    IF comments = <<>> THEN sorted
    ELSE SortByCreatedAt(Tail(comments), InsertByCreatedAt(Head(comments), sorted))

\* GitHubClient.get_pr_comments, from the JSON of its two requests on.
get_pr_comments(issue_comments, review_comments) ==
    SortByCreatedAt(
        [i \in 1..Len(issue_comments) |-> IssueComment(issue_comments[i])]
            \o [i \in 1..Len(review_comments) |-> ReviewComment(review_comments[i])],
        <<>>)

\* The states of a review; a review is by one user.
ReviewStates == { <<"APPROVED">>, <<"CHANGES_REQUESTED">>, <<"COMMENTED">> }
Reviews == [user : { <<"alice">> }, state : ReviewStates]

\* pr.mergeable: True, False, or None while GitHub has not computed it.
Mergeable == { <<"True">>, <<"False">>, None }

\* The fields of PullRequestDetail that the assessment reads.
PullRequests ==
    [draft : BOOLEAN, mergeable : Mergeable,
     requested_reviewers : { <<>>, << <<"bob">> >> }]

\* A conflict reported as well when mergeable is None.
HasConflicts_when_unknown(mergeable) == mergeable # <<"True">>

\* pr.mergeable is False
HasConflicts(mergeable) == mergeable = <<"False">>

\* [r for r in reviews if r.state == state]
ReviewsIn(reviews, state) == SelectSeq(reviews, LAMBDA r : r.state = state)

Logins(reviews) == [i \in 1..Len(reviews) |-> reviews[i].user]

\* The names of the checks with a conclusion other than success, three at most.
FailedNames(checks) ==
    LET failed == SelectSeq(checks, LAMBDA c : Truthy(c.conclusion)
                                                /\ c.conclusion # <<"success">>)
    IN  [i \in 1..Min(Len(failed), 3) |-> failed[i].name]

BlockerIf(condition, text) == IF condition THEN <<text>> ELSE <<>>

\* The list blockers of _get_pr_ready_status, in the order of its tests.
Blockers(pr, reviews, checks) ==
    BlockerIf(pr.draft, <<"PR is still in draft">>)
    \o BlockerIf(ReviewsIn(reviews, <<"CHANGES_REQUESTED">>) # <<>>,
                 <<"Changes requested by: ">>
                     \o Join(<<", ">>, Logins(ReviewsIn(reviews, <<"CHANGES_REQUESTED">>))))
    \o BlockerIf(pr.requested_reviewers # <<>>,
                 <<"Waiting for review from: ">> \o Join(<<", ">>, pr.requested_reviewers))
    \o BlockerIf(checks.failed > 0,
                 <<"Failed checks: ">> \o Join(<<", ">>, FailedNames(checks.checks)))
    \o BlockerIf(checks.pending > 0, <<ToString(checks.pending), " checks still running">>)
    \o BlockerIf(HasConflicts(pr.mergeable), <<"Has merge conflicts">>)

\* The if / elif chain that determines the overall status.
OverallStatus(blockers, pr, reviews) ==
    IF blockers = <<>> THEN "READY"
    ELSE IF pr.draft THEN "DRAFT"
    ELSE IF ReviewsIn(reviews, <<"CHANGES_REQUESTED">>) # <<>> \/ HasConflicts(pr.mergeable)
    THEN "BLOCKED"
    ELSE "PENDING"

\* ToolExecutor._get_pr_ready_status, from the three answers of the client on.
ready_status(pr, reviews, checks) ==
    [status |-> OverallStatus(Blockers(pr, reviews, checks), pr, reviews),
     reviews |-> [approvals |-> Len(ReviewsIn(reviews, <<"APPROVED">>)),
                  changes_requested_by |->
                      Logins(ReviewsIn(reviews, <<"CHANGES_REQUESTED">>)),
                  waiting_on |-> pr.requested_reviewers],
     checks |-> [passed |-> checks.passed, failed |-> checks.failed,
                 pending |-> checks.pending, total |-> checks.total],
     blockers |-> Blockers(pr, reviews, checks)]

\* The summaries of checks the assessment is tried on.
ReadyChecks ==
    { get_pr_checks([check_runs |-> runs]) :
        runs \in { <<>>,
                   << [name |-> <<"ci">>, status |-> <<"completed">>,
                       conclusion |-> <<"success">>] >>,
                   << [name |-> <<"ci">>, status |-> <<"completed">>,
                       conclusion |-> <<"failure">>] >>,
                   << [name |-> <<"ci">>, status |-> <<"completed">>] >>,
                   << [name |-> <<"ci">>, status |-> <<"queued">>] >>,
                   << [name |-> <<"ci">>, status |-> <<"completed">>,
                       conclusion |-> <<"failure">>],
                      [name |-> <<"ci">>, status |-> <<"in_progress">>] >> } }

ChecksData ==
    {EmptyDict} \cup [check_runs : SeqsUpTo(CheckRunsJson, MaxChecks)]

InitClient ==
    /\ impl = PR
    /\ model = DefaultModel
    /\ catalog = TOOL_SCHEMAS
    /\ max_iterations = 0
    /\ default_repo = None
    /\ conversation = <<>>
    /\ pc = [r \in Callers |-> "IDLE"]
    /\ iterations = [r \in Callers |-> 0]
    /\ tool_calls = [r \in Callers |-> <<>>]
    /\ tool_results = [r \in Callers |-> <<>>]
    /\ response = [r \in Callers |-> <<>>]
    /\ block = [r \in Callers |-> 0]
    /\ outcome = [r \in Callers |-> NoOutcome]
    /\ model_calls = [r \in Callers |-> 0]
    /\ last_stop = [r \in Callers |-> "none"]
    /\ only_tool_use = [r \in Callers |-> TRUE]
    /\ emitted = [r \in Callers |-> <<>>]
    /\ executions = [r \in Callers |-> 0]
    /\ runs_started = 0
    /\ calls_total = 0
    /\ blocks_total = 0
    /\ sent = [r \in Callers |-> <<>>]
    /\ script = [r \in Callers |-> NoScript]
    /\ pristine = TRUE
    /\ call \in [op : {"get_pr_checks"}, data : ChecksData,
                 done : {FALSE}, result : { <<>> }]
                \cup [op : {"get_pr_comments"},
                      issue_comments : SeqsUpTo(IssueCommentsJson, MaxComments),
                      review_comments : SeqsUpTo(ReviewCommentsJson, MaxComments),
                      done : {FALSE}, result : { <<>> }]
                \cup [op : {"get_pr_ready_status"}, pr : PullRequests,
                      reviews : SeqsUpTo(Reviews, MaxReviews), checks : ReadyChecks,
                      done : {FALSE}, result : { <<>> }]

GetPrChecks ==
    /\ call.op = "get_pr_checks"
    /\ ~call.done
    /\ call' = [call EXCEPT !.done = TRUE, !.result = get_pr_checks(call.data)]
    /\ UNCHANGED <<impl, model, catalog, max_iterations, default_repo, conversation, pc, iterations,
                   tool_calls, tool_results, response, block, outcome, model_calls,
                   last_stop, only_tool_use, emitted, executions, runs_started, pristine,
                   calls_total, blocks_total, sent, script>>

GetPrComments ==
    /\ call.op = "get_pr_comments"
    /\ ~call.done
    /\ call' = [call EXCEPT !.done = TRUE,
                            !.result = get_pr_comments(call.issue_comments,
                                                       call.review_comments)]
    /\ UNCHANGED <<impl, model, catalog, max_iterations, default_repo, conversation, pc, iterations,
                   tool_calls, tool_results, response, block, outcome, model_calls,
                   last_stop, only_tool_use, emitted, executions, runs_started, pristine,
                   calls_total, blocks_total, sent, script>>

GetPrReadyStatus ==
    /\ call.op = "get_pr_ready_status"
    /\ ~call.done
    /\ call' = [call EXCEPT !.done = TRUE,
                            !.result = ready_status(call.pr, call.reviews, call.checks)]
    /\ UNCHANGED <<impl, model, catalog, max_iterations, default_repo, conversation, pc, iterations,
                   tool_calls, tool_results, response, block, outcome, model_calls,
                   last_stop, only_tool_use, emitted, executions, runs_started, pristine,
                   calls_total, blocks_total, sent, script>>

NextClient ==
    \/ GetPrChecks
    \/ GetPrComments
    \/ GetPrReadyStatus

SpecClient == InitClient /\ [][NextClient]_vars

----------------------------------------------------------------------------
(***************************************************************************)
(* C1.  ToolExecutor.execute never raises: whatever the tool name, the     *)
(* input, the default repository and the behaviour of GitHub, an exception *)
(* raised while resolving parameters, dispatching, calling GitHub or       *)
(* serialising the result is returned as the text                          *)
(* "Error executing <name>: <message>" with the exception's own message.   *)
(* (Checked under SpecExec.)                                               *)
(***************************************************************************)
C1_Holds(name, res, d) ==
    /\ ~res.raised
    /\ d.raised => res.value = <<"Error executing ", name, ": ">> \o d.msg
    /\ (~d.raised /\ ~d.value.serializable) =>
         /\ Len(res.value) = 4
         /\ SubSeq(res.value, 1, 3) = <<"Error executing ", name, ": ">>
    /\ (~d.raised /\ d.value.serializable) => res.value[1] # "Error executing "

C1_ExecuteNeverRaises ==
    call.done =>
        C1_Holds(call.tool_name, call.result,
                 _dispatch(call.tool_name, call.tool_input, call.default, call.gh))

\* A GitHub failure during get_pr_checks has come back as text.
C1_Witness ==
    /\ call.done
    /\ call.tool_name = "get_pr_checks"
    /\ call.gh.fail_at = 1
    /\ call.result = Ok(<<"Error executing ", "get_pr_checks", ": ", "API rate limit">>,
                        << [op |-> "get_pr_checks", repo |-> AcmeWidgets, pr_number |-> 7] >>)

----------------------------------------------------------------------------
\* Helpers of the statements below, computed from the blocks themselves.
NumToolUse(content, n) ==
    Cardinality({ i \in 1..n : content[i].type = "tool_use" })

\* The index in content of its k-th tool_use block.
KthToolUse(content, k) ==
    CHOOSE i \in 1..Len(content) :
        content[i].type = "tool_use" /\ NumToolUse(content, i) = k

TextOf(b) == IF "text" \in DOMAIN b THEN b.text ELSE <<>>

RECURSIVE Flatten(_, _)
Flatten(content, i) ==
    IF i > Len(content) THEN <<>> ELSE TextOf(content[i]) \o Flatten(content, i + 1)

IsNewline(tok) == tok = "\n"
NotNewline(tok) == tok # "\n"

IsErrorText(text) ==
    Len(text) >= 1 /\ text[1] \in {"Error executing ", "Error: Unknown tool '"}

LastTurn == conversation[Len(conversation)]

(***************************************************************************)
(* C2.  With max_iterations = N >= 1 and a model that answers every        *)
(* invocation with tool_use, a run that has ended has ended exhausted:     *)
(* the model was invoked exactly N times and run returned the fixed        *)
(* exhaustion message with iterations = N.                                 *)
(***************************************************************************)
C2_ExhaustedAfterN ==
    \A r \in Callers :
        (max_iterations >= 1 /\ only_tool_use[r] /\ pc[r] \in Finished \ {"IDLE"}) =>
            /\ pc[r] = "EXHAUSTED"
            /\ model_calls[r] = max_iterations
            /\ outcome[r].kind = "returned"
            /\ outcome[r].result.response = ExhaustionMessage
            /\ outcome[r].result.iterations = max_iterations

\* Two tool_use answers with N = 2, and the run exhausted.
C2_Witness ==
    /\ max_iterations = 2
    /\ pc[1] = "EXHAUSTED"
    /\ only_tool_use[1]
    /\ model_calls[1] = 2
    /\ outcome[1].result.iterations = 2

(***************************************************************************)
(* C3.  Whatever the model answers, a run invokes the model at most        *)
(* max_iterations times (never, when max_iterations is not positive).      *)
(***************************************************************************)
C3_AtMostMaxIterations ==
    \A r \in Callers :
        model_calls[r] <= (IF max_iterations < 0 THEN 0 ELSE max_iterations)

\* The counter has reached the maximum and the run is at its loop test.
C3_Witness ==
    /\ max_iterations = 2
    /\ pc[1] = "AWAITING_MODEL"
    /\ model_calls[1] = 2
    /\ iterations[1] = 2

(***************************************************************************)
(* C4.  Every run terminates, given that the model and the dispatcher      *)
(* answer: the n-th run in flight leads to that same run being DONE,       *)
(* EXHAUSTED or PROTOCOL_ERROR, and a run is never in any state other      *)
(* than AWAITING_MODEL, EXECUTING_TOOLS (a tool call in flight included)   *)
(* and these three.  (Checked under SpecFair.)                             *)
(***************************************************************************)
C4_RunTerminates ==
    \A r \in Callers :
        /\ [](pc[r] \in {"IDLE", "AWAITING_MODEL", "EXECUTING_TOOLS", "TOOL_IN_FLIGHT",
                         "DONE", "EXHAUSTED", "PROTOCOL_ERROR"})
        /\ \A n \in 1..MaxRuns :
             (runs_started = n /\ pc[r] \notin Finished)
                 ~> (runs_started = n /\ pc[r] \in {"DONE", "EXHAUSTED", "PROTOCOL_ERROR"})

\* A run that went through one round of tools and then got its final answer.
C4_Witness ==
    /\ pc[1] = "DONE"
    /\ model_calls[1] = 2
    /\ executions[1] >= 1

(***************************************************************************)
(* C5.  Once the blocks of a tool_use response are processed, the last     *)
(* two turns of the conversation are the assistant turn of that response   *)
(* and one user turn holding one tool_result per tool_use block, in the    *)
(* order of the blocks, the i-th result carrying the i-th block's id;      *)
(* other blocks yield no result.                                           *)
(***************************************************************************)
C5_ResultsFollowBlocks ==
    \A r \in Callers :
        (pc[r] = "AWAITING_MODEL" /\ last_stop[r] = "tool_use") =>
            /\ Len(conversation) >= 2
            /\ conversation[Len(conversation) - 1] =
                 [role |-> "assistant", kind |-> "blocks", content |-> response[r]]
            /\ LastTurn.role = "user"
            /\ LastTurn.kind = "tool_results"
            /\ Len(LastTurn.content) = NumToolUse(response[r], Len(response[r]))
            /\ \A k \in 1..Len(LastTurn.content) :
                 /\ LastTurn.content[k].type = "tool_result"
                 /\ LastTurn.content[k].tool_use_id =
                      response[r][KthToolUse(response[r], k)].id

\* Blocks toolu_2, toolu_1 in that order, answered in that order.
C5_Witness ==
    /\ pc[1] = "AWAITING_MODEL"
    /\ last_stop[1] = "tool_use"
    /\ Len(response[1]) = 2
    /\ response[1][1].type = "tool_use" /\ response[1][1].id = "toolu_2"
    /\ response[1][2].type = "tool_use" /\ response[1][2].id = "toolu_1"
    /\ Len(LastTurn.content) = 2
    /\ LastTurn.content[1].tool_use_id = "toolu_2"
    /\ LastTurn.content[2].tool_use_id = "toolu_1"

(***************************************************************************)
(* C6.  In GitHubPRAgent, a response whose stop_reason is neither end_turn *)
(* nor tool_use ends the run with an error raised to the caller: no result *)
(* is returned, no tool is executed for it and the model is not invoked    *)
(* again in that run.                                                      *)
(***************************************************************************)
C6_UnexpectedStopIsFatal ==
    impl = PR =>
        \A r \in Callers :
            last_stop[r] \notin {"none", "end_turn", "tool_use"} =>
                /\ pc[r] = "PROTOCOL_ERROR"
                /\ outcome[r].kind = "raised"
                /\ outcome[r].cls = "RuntimeError"
                /\ executions[r] = Len(emitted[r])

\* The second response of a GitHubPRAgent run stopped with max_tokens.
C6_Witness ==
    /\ impl = PR
    /\ last_stop[1] = "max_tokens"
    /\ pc[1] = "PROTOCOL_ERROR"
    /\ model_calls[1] = 2
    /\ max_iterations = 2

(***************************************************************************)
(* C7.  In GitHubAgent, a response whose stop_reason is neither end_turn   *)
(* nor tool_use likewise ends the run with a failure surfaced to the       *)
(* caller, and the model is not invoked again in that run.                 *)
(***************************************************************************)
C7_UnexpectedStopIsFatalInGitHubAgent ==
    impl = GA =>
        \A r \in Callers :
            last_stop[r] \notin {"none", "end_turn", "tool_use"} =>
                /\ pc[r] = "PROTOCOL_ERROR"
                /\ outcome[r].kind = "raised"

(***************************************************************************)
(* C8 as stated.  On end_turn, run returns the texts of the text-bearing   *)
(* blocks concatenated in order with nothing between them.                 *)
(***************************************************************************)
C8_TextsConcatenated ==
    \A r \in Callers :
        pc[r] = "DONE" => outcome[r].result.response = Flatten(response[r], 1)

(***************************************************************************)
(* C8 as amended.  On end_turn, run returns the texts of the text-bearing  *)
(* blocks in order, blocks without text contributing nothing; GitHubAgent  *)
(* puts nothing between them, GitHubPRAgent puts one newline between each  *)
(* two consecutive texts.                                                  *)
(***************************************************************************)
C8_TextsJoined ==
    \A r \in Callers :
        pc[r] = "DONE" =>
            LET text == outcome[r].result.response
                texts == { i \in 1..Len(response[r]) : "text" \in DOMAIN response[r][i] }
            IN  /\ SelectSeq(text, NotNewline) = Flatten(response[r], 1)
                /\ Len(SelectSeq(text, IsNewline)) =
                     (IF impl = GA \/ texts = {} THEN 0 ELSE Cardinality(texts) - 1)
                /\ text # <<>> => (text[1] # "\n" /\ text[Len(text)] # "\n")

\* GitHubPRAgent's answer to two text blocks.
C8_Witness ==
    /\ impl = PR
    /\ pc[1] = "DONE"
    /\ response[1] = << [type |-> "text", text |-> <<"Found 3 open PRs.">>],
                        [type |-> "text", text |-> <<"No open PRs.">>] >>
    /\ outcome[1].result.response = <<"Found 3 open PRs.", "\n", "No open PRs.">>

(***************************************************************************)
(* C9.  A failing tool call does not abort the run: no exception leaves    *)
(* run from the dispatcher, every tool_use block the for loop has passed   *)
(* has its tool_result whether or not an earlier one failed, and the run   *)
(* comes back to its loop test with the results, error texts included,     *)
(* as the last turn of the conversation the model is invoked with next.    *)
(***************************************************************************)
C9_FailedToolDoesNotAbort ==
    \A r \in Callers :
        /\ pc[r] # "RAISED"
        /\ pc[r] = "EXECUTING_TOOLS" =>
             /\ Len(tool_results[r]) = NumToolUse(response[r], block[r] - 1)
             /\ executions[r] = Len(tool_calls[r])
        /\ (pc[r] = "AWAITING_MODEL" /\ last_stop[r] = "tool_use") =>
             /\ LastTurn.content = tool_results[r]
             /\ Len(tool_results[r]) = NumToolUse(response[r], Len(response[r]))

\* get_pr_checks failed with "rate limit", list_pull_requests after it ran,
\* and the model was invoked again.
C9_Witness ==
    /\ Len(conversation) >= 4
    /\ conversation[3].kind = "tool_results"
    /\ Len(conversation[3].content) = 2
    /\ conversation[3].content[1].content =
         <<"Error executing ", "get_pr_checks", ": ", "rate limit">>
    /\ ~IsErrorText(conversation[3].content[2].content)
    /\ conversation[4].role = "assistant"
    /\ model_calls[1] = 2

(***************************************************************************)
(* C10.  The tool_calls of a returned AgentResult are the {name, input}    *)
(* of the tool_use blocks the model emitted during that run, in order      *)
(* over its iterations, failed calls included, calls of earlier runs on    *)
(* the instance excluded.                                                  *)
(***************************************************************************)
C10_ToolCallsAreThisRunsBlocks ==
    \A r \in Callers :
        pc[r] \in {"DONE", "EXHAUSTED"} =>
            /\ outcome[r].kind = "returned"
            /\ outcome[r].result.tool_calls = emitted[r]

\* A second run with one call of its own, after a first run that made one.
C10_Witness ==
    /\ runs_started = 2
    /\ pc[1] = "EXHAUSTED"
    /\ Len(conversation) = 6
    /\ conversation[2].content = << [type |-> "tool_use", id |-> "toolu_1",
                                     name |-> "list_pull_requests", input |-> EmptyDict] >>
    /\ outcome[1].result.tool_calls =
         << [name |-> "get_pr_checks", input |-> [repo |-> AcmeWidgets, pr_number |-> 7]] >>

----------------------------------------------------------------------------
\* Helpers of the statements about the conversation.
IsPrefix(a, b) == Len(a) <= Len(b) /\ SubSeq(b, 1, Len(a)) = a

\* The number of turns of a conversation that carry a caller's message.
MessageTurns(conv) ==
    Cardinality({ i \in 1..Len(conv) : conv[i].kind = "message" })

\* The ids of the tool_use blocks of a content, in order.
ToolUseIds(content) ==
    [k \in 1..Len(ToolUses(content)) |-> ToolUses(content)[k].id]

\* The ids the results of a tool-result turn answer, in order.
ResultIds(results) == [k \in 1..Len(results) |-> results[k].tool_use_id]

(***************************************************************************)
(* C11.  Whenever run has returned an AgentResult, for every configured    *)
(* max_iterations (zero and negative included), its iterations field is    *)
(* the number of model invocations the run made.                           *)
(***************************************************************************)
C11_IterationsCountInvocations ==
    \A r \in Callers :
        outcome[r].kind = "returned" =>
            outcome[r].result.iterations = model_calls[r]

(***************************************************************************)
(* C12.  In every conversation of a single-caller agent, a user turn that  *)
(* carries tool results is not the first turn, and the turn right before   *)
(* it is the assistant turn whose tool_use blocks it answers: same number  *)
(* of blocks as results, same ids in the same order.                       *)
(***************************************************************************)
C12_ResultsFollowTheirAssistantTurn ==
    \A i \in 1..Len(conversation) :
        conversation[i].kind = "tool_results" =>
            /\ i > 1
            /\ conversation[i - 1].role = "assistant"
            /\ conversation[i - 1].kind = "blocks"
            /\ ToolUseIds(conversation[i - 1].content) = ResultIds(conversation[i].content)

\* A second run's tool results, right after that run's assistant turn.
C12_Witness ==
    /\ runs_started = 2
    /\ Len(conversation) = 5
    /\ conversation[5].kind = "tool_results"
    /\ Len(conversation[5].content) = 1
    /\ conversation[4].role = "assistant"
    /\ conversation[4].content[1].type = "tool_use"

(***************************************************************************)
(* C13.  After any sequence of run and reset calls on one instance, the    *)
(* conversation is empty or starts with a user turn, and no two            *)
(* consecutive turns have the same role.                                   *)
(***************************************************************************)
C13_TurnsAlternate ==
    Quiescent =>
        /\ conversation # <<>> => conversation[1].role = "user"
        /\ \A i \in 1..(Len(conversation) - 1) :
             conversation[i].role # conversation[i + 1].role

(***************************************************************************)
(* C14.  The conversation is append-only except for reset: every step      *)
(* that is not reset leaves the previous conversation as a prefix of the   *)
(* new one, over any number of runs.                                       *)
(***************************************************************************)
C14_AppendOnly ==
    [][Reset \/ IsPrefix(conversation, conversation')]_vars

\* Two runs on one instance, the second's turns after the first's.
C14_Witness ==
    /\ runs_started = 2
    /\ Len(conversation) = 5
    /\ pc[1] = "DONE"
    /\ conversation[1].kind = "message"
    /\ conversation[3].kind = "tool_results"
    /\ conversation[4].kind = "message"

(***************************************************************************)
(* C15.  Each run call appends the caller's message as a user turn exactly *)
(* once, before its first model invocation: the step that enters run adds  *)
(* that one turn with no model call made yet, and no later step of the run *)
(* adds a turn carrying a caller's message.                                *)
(***************************************************************************)
C15_MessageAppendedOnce ==
    [][ /\ runs_started' = runs_started + 1 =>
             /\ Len(conversation') = Len(conversation) + 1
             /\ IsPrefix(conversation, conversation')
             /\ conversation'[Len(conversation')].role = "user"
             /\ conversation'[Len(conversation')].kind = "message"
             /\ \A r \in Callers : script'[r] # script[r] =>
                  /\ conversation'[Len(conversation')].content = script'[r].message
                  /\ model_calls'[r] = 0
        /\ (runs_started' = runs_started /\ conversation' # <<>>) =>
             MessageTurns(conversation') = MessageTurns(conversation) ]_vars

\* A run on its second model call with its message in the conversation once.
C15_Witness ==
    /\ runs_started = 1
    /\ model_calls[1] = 2
    /\ Len(conversation) >= 4
    /\ MessageTurns(conversation) = 1
    /\ conversation[1] = UserTurn(script[1].message)

(***************************************************************************)
(* C16.  Every model invocation is passed the whole conversation of the    *)
(* instance as it is at that moment: the turns of earlier runs since the   *)
(* last reset followed by the turns of the current run so far.             *)
(***************************************************************************)
C16_ModelSeesWholeConversation ==
    [][calls_total' = calls_total + 1 =>
          \A r \in Callers : model_calls'[r] # model_calls[r] => sent'[r] = conversation]_vars

\* The second run's model call was passed the first run's turns too.
C16_Witness ==
    /\ runs_started = 2
    /\ model_calls[1] = 1
    /\ Len(sent[1]) = 3
    /\ sent[1][1].kind = "message"
    /\ sent[1][2].role = "assistant"
    /\ sent[1][3].kind = "message"

----------------------------------------------------------------------------
(***************************************************************************)
(* run on a freshly constructed instance, as a function of what it is      *)
(* called with and of what the model and GitHub answer: the conversation   *)
(* and the outcome after the events so far.  ended says whether run has    *)
(* returned or raised.                                                     *)
(***************************************************************************)
\* The tool_results of a response's tool_use blocks, the k-th block executed
\* under the k-th behaviour of GitHub.
RECURSIVE ResultsOf(_, _)
ResultsOf(uses, ghs) ==
    IF uses = <<>> THEN <<>>
    ELSE <<ToolResult(Head(uses), Dispatcher(Head(uses), Head(ghs)).value)>>
             \o ResultsOf(Tail(uses), Tail(ghs))

ToolCallsOf(content) ==
    [k \in 1..Len(ToolUses(content)) |-> ToolCall(ToolUses(content)[k])]

RECURSIVE FreshRun(_, _, _, _, _)
FreshEvent(ev, conv, calls, its, rest, ended) ==
    CASE ev.stop = "end_turn" ->
           [conversation |-> Append(conv, AssistantTurn(ev.content)),
            outcome |-> Returned(AgentResult(FinalText(ev.content), calls, its + 1))]
      [] ev.stop = "tool_use" ->
           FreshRun(Append(Append(conv, AssistantTurn(ev.content)),
                           ToolResultsTurn(ResultsOf(ToolUses(ev.content), ev.gh))),
                    calls \o ToolCallsOf(ev.content), its + 1, rest, ended)
      [] OTHER ->
           IF UnexpectedStopRaises
           THEN [conversation |-> conv,
                 outcome |-> Raised("RuntimeError", <<"Unexpected stop reason: ", ev.stop>>)]
           ELSE FreshRun(conv, calls, its + 1, rest, ended)

FreshRun(conv, calls, its, events, ended) ==
    IF ~LoopGuard(its, max_iterations)
    THEN [conversation |-> conv,
          outcome |-> IF ended
                      THEN Returned(AgentResult(ExhaustionMessage, calls,
                                                ExhaustedIterations(its)))
                      ELSE NoOutcome]
    ELSE IF events = <<>> THEN [conversation |-> conv, outcome |-> NoOutcome]
    ELSE FreshEvent(Head(events), conv, calls, its, Tail(events), ended)

SameAsFresh(r, f) == conversation = f.conversation /\ outcome[r] = f.outcome

(***************************************************************************)
(* C17.  Whatever runs came before, a run entered right after reset (or on *)
(* the new instance) has, at every loop test and when it has ended, the    *)
(* conversation and the outcome that run has on a freshly constructed      *)
(* instance of the same configuration given the same message and the same  *)
(* answers of the model and of GitHub (until reset is called again).       *)
(***************************************************************************)
C17_ResetThenRunIsFreshRun ==
    \A r \in Callers :
        (script[r].fresh /\ ~pristine
            /\ pc[r] \in {"AWAITING_MODEL", "DONE", "EXHAUSTED", "PROTOCOL_ERROR"}) =>
            SameAsFresh(r, FreshRun(EnterRun(<<>>, script[r].message), <<>>, 0,
                                    script[r].events, pc[r] \in Finished))

\* A run, reset, and a second run that went through a tool call.
C17_Witness ==
    /\ runs_started = 2
    /\ calls_total = 2
    /\ script[1].fresh
    /\ pc[1] = "EXHAUSTED"
    /\ Len(conversation) = 3
    /\ conversation[3].kind = "tool_results"
    /\ Len(outcome[1].result.tool_calls) = 1

(***************************************************************************)
(* C18.  reset empties the conversation and changes nothing else:          *)
(* max_iterations, model, the default repository, and the position, the    *)
(* iteration count, the accumulated tool_calls and the other locals of a   *)
(* run in flight are as before.  (Checked under SpecInFlight, where reset  *)
(* is also called while a run awaits the dispatcher.)                      *)
(***************************************************************************)
C18_ResetOnlyClearsConversation ==
    [][Reset =>
         /\ conversation' = <<>>
         /\ UNCHANGED <<impl, model, catalog, max_iterations, default_repo>>
         /\ UNCHANGED <<pc, iterations, tool_calls, tool_results, response, block,
                        outcome>>]_vars

\* reset was called during the first tool call of a run, which is still there.
C18_Witness ==
    /\ pristine
    /\ conversation = <<>>
    /\ pc[1] = "TOOL_IN_FLIGHT"
    /\ iterations[1] = 1
    /\ Len(tool_calls[1]) = 1

----------------------------------------------------------------------------
\* The tools of the catalog that require a repository.
RepoTools ==
    { "list_pull_requests", "get_pull_request", "get_pr_reviews", "get_pr_comments",
      "get_pr_checks", "get_pr_files", "get_repo_activity", "get_pr_ready_status" }

\* Every GitHubClient call of the execution was passed this repository.
AllCallsOn(calls, repo) == \A k \in 1..Len(calls) : calls[k].repo = repo

NoRepositoryText(name) ==
    <<"Error executing ", name, ": ", "No repository specified and no default configured">>

(***************************************************************************)
(* C19 as stated.  For every tool that requires a repository: a repo       *)
(* supplied in the input is the one passed to GitHub even when a default   *)
(* is configured; when repo is omitted the configured default is passed;   *)
(* when repo is omitted and no default is configured, no GitHub call is    *)
(* made and execute returns an error text instead of raising.              *)
(***************************************************************************)
C19_SuppliedRepoIsPassed ==
    (call.done /\ call.tool_name \in RepoTools) =>
        /\ Has(call.tool_input, "repo") =>
             AllCallsOn(call.result.calls, call.tool_input["repo"])
        /\ (~Has(call.tool_input, "repo") /\ Truthy(call.default)) =>
             AllCallsOn(call.result.calls, call.default)
        /\ (~Has(call.tool_input, "repo") /\ call.default = None) =>
             /\ call.result.calls = <<>>
             /\ call.result = Ok(NoRepositoryText(call.tool_name), <<>>)

(***************************************************************************)
(* C19 as amended.  For every tool that requires a repository: a non-empty *)
(* repo supplied in the input is the one passed to GitHub even when a      *)
(* default is configured; when repo is omitted or empty the configured     *)
(* non-empty default is passed; when repo is omitted or empty and no       *)
(* non-empty default is configured, no GitHub call is made and execute     *)
(* returns the error text instead of raising.                              *)
(***************************************************************************)
C19_RepoResolution ==
    (call.done /\ call.tool_name \in RepoTools) =>
        /\ Truthy(Get(call.tool_input, "repo", None)) =>
             AllCallsOn(call.result.calls, call.tool_input["repo"])
        /\ (~Truthy(Get(call.tool_input, "repo", None)) /\ Truthy(call.default)) =>
             AllCallsOn(call.result.calls, call.default)
        /\ (~Truthy(Get(call.tool_input, "repo", None)) /\ ~Truthy(call.default)) =>
             /\ call.result.calls = <<>>
             /\ call.result = Ok(NoRepositoryText(call.tool_name), <<>>)

\* get_repo_activity on acme/widgets with test/repo configured: both
\* listings were made on acme/widgets.
C19_Witness ==
    /\ call.done
    /\ call.tool_name = "get_repo_activity"
    /\ call.tool_input = [repo |-> AcmeWidgets]
    /\ call.default = TestRepo
    /\ Len(call.result.calls) = 2
    /\ call.result.calls[1].repo = AcmeWidgets
    /\ call.result.calls[2].repo = AcmeWidgets
    /\ call.result.value = <<"{", "get_repo_activity", "}">>

(***************************************************************************)
(* C20.  For every tool name that is not in the catalog, execute does not  *)
(* raise, returns a text that contains "Unknown tool", and makes no call   *)
(* to GitHub.                                                              *)
(***************************************************************************)
C20_UnknownToolIsReported ==
    (call.done /\ \A i \in 1..Len(TOOL_SCHEMAS) : TOOL_SCHEMAS[i] # call.tool_name) =>
        /\ ~call.result.raised
        /\ Contains(call.result.value, <<"Unknown tool">>)
        /\ call.result.calls = <<>>

\* The test's call: execute("nonexistent_tool", {}) with test/repo configured.
C20_Witness ==
    /\ call.done
    /\ call.tool_name = "nonexistent_tool"
    /\ call.tool_input = EmptyDict
    /\ call.default = TestRepo
    /\ call.result.value =
         <<"Error executing ", "nonexistent_tool", ": ", "Unknown tool", ": ", "nonexistent_tool">>

----------------------------------------------------------------------------
InCatalog(name) == \E i \in 1..Len(catalog) : catalog[i] = name

(***************************************************************************)
(* C21 as stated.  For a tool name outside the catalog the output of       *)
(* ToolExecutor.execute is the dedicated text "Error: Unknown tool         *)
(* '<name>'", not the generic "Error executing <name>: <message>".         *)
(* (Checked under SpecExec.)                                               *)
(***************************************************************************)
C21_UnknownToolDedicatedForm ==
    (call.done /\ ~InCatalog(call.tool_name)) =>
        /\ ~call.result.raised
        /\ call.result.value = <<"Error: Unknown tool '", call.tool_name, "'">>

----------------------------------------------------------------------------
\* All requests of the GitHubClient calls of one execution.
RECURSIVE RequestsOf(_)
RequestsOf(calls) ==
    IF calls = <<>> THEN <<>>
    ELSE HttpRequests(Head(calls)) \o RequestsOf(Tail(calls))

(***************************************************************************)
(* C24.  The system only reads from GitHub: for every tool, input, default *)
(* repository and behaviour of GitHub, every HTTP request of every         *)
(* GitHubClient call of the execution has the method GET.                  *)
(* (Checked under SpecExec.)                                               *)
(***************************************************************************)
C24_OnlyGetRequests ==
    call.done =>
        \A i \in 1..Len(RequestsOf(call.result.calls)) :
            RequestsOf(call.result.calls)[i].method = "GET"

\* get_pr_ready_status went through its three queries: four requests.
C24_Witness ==
    /\ call.done
    /\ call.tool_name = "get_pr_ready_status"
    /\ Len(call.result.calls) = 3
    /\ Len(RequestsOf(call.result.calls)) = 4

----------------------------------------------------------------------------
Malformed(repo) == Len(Split(repo)) # 2

(***************************************************************************)
(* C25 as stated.  A repository identifier that is not owner/name never    *)
(* reaches GitHub: every GitHubClient call that was given a malformed      *)
(* repository, search_pull_requests included, sends no request, and the    *)
(* execution returns error text.  (Checked under SpecExec.)                *)
(***************************************************************************)
C25_MalformedRepoNeverSent ==
    call.done =>
        \A k \in 1..Len(call.result.calls) :
            (Truthy(call.result.calls[k].repo)
                 /\ Malformed(call.result.calls[k].repo)) =>
                /\ HttpRequests(call.result.calls[k]) = <<>>
                /\ ~call.result.raised
                /\ IsErrorText(call.result.value)

----------------------------------------------------------------------------
(***************************************************************************)
(* C26 as stated.  For list_pull_requests and search_pull_requests, with   *)
(* any integer limit or none, the per_page passed to the GitHubClient is   *)
(* in 1..30.  (Checked under SpecExec.)                                    *)
(***************************************************************************)
C26_PageSizeInRange ==
    (call.done /\ call.tool_name \in {"list_pull_requests", "search_pull_requests"}) =>
        \A k \in 1..Len(call.result.calls) :
            call.result.calls[k].per_page \in 1..30

----------------------------------------------------------------------------
\* The execution ended in the case _ branch of _dispatch.
RoutedToUnknown(name, input, default, gh) ==
    LET d == _dispatch(name, input, default, gh)
    IN  d.raised /\ d.cls = "ValueError" /\ d.msg = <<"Unknown tool", ": ", name>>

(***************************************************************************)
(* C29.  The catalog and _dispatch agree: a name is routed to the          *)
(* unknown-tool branch of _dispatch exactly when it has no schema in       *)
(* TOOL_SCHEMAS.  (Checked under SpecExec.)                                *)
(***************************************************************************)
C29_CatalogMatchesDispatcher ==
    call.done =>
        (InCatalog(call.tool_name) <=>
            ~RoutedToUnknown(call.tool_name, call.tool_input, call.default, call.gh))

\* The last name of the catalog reached its target and returned a result.
C29_Witness ==
    /\ call.done
    /\ call.tool_name = catalog[Len(catalog)]
    /\ call.tool_name = "get_pr_ready_status"
    /\ Len(call.result.calls) = 3
    /\ ~IsErrorText(call.result.value)

----------------------------------------------------------------------------
(***************************************************************************)
(* C30.  No two entries of TOOL_SCHEMAS have the same name, and no step of *)
(* the agent (run, the loop, the tools, reset) changes the catalog.        *)
(***************************************************************************)
C30_NamesUniqueAndFixed ==
    /\ [](\A i, j \in 1..Len(catalog) : catalog[i] = catalog[j] => i = j)
    /\ [][catalog' = catalog]_vars

\* A run that was given the catalog executed a tool of it and finished.
C30_Witness ==
    \E r \in Callers :
        /\ pc[r] = "DONE"
        /\ executions[r] >= 1
        /\ InCatalog(emitted[r][1].name)
        /\ Len(catalog) = 9

----------------------------------------------------------------------------
\* The dispatcher calls of the run of r that have returned.
RECURSIVE CountReturns(_)
CountReturns(events) ==
    IF events = <<>> THEN 0 ELSE Len(Head(events).gh) + CountReturns(Tail(events))

ToolsReturned(r) == CountReturns(script[r].events)

NoRepeats(calls) == \A i, j \in 1..Len(calls) : calls[i] = calls[j] => i = j

(***************************************************************************)
(* C22.  Each tool_use block the model emits causes exactly one dispatcher *)
(* execution.  The loop never executes more blocks than were emitted, the  *)
(* k-th execution of a run is the k-th block emitted, once the blocks of a *)
(* response are processed the executions are as many as the blocks, and    *)
(* inside one execution no GitHubClient call is made twice, a failed one   *)
(* included.  The same call is executed again only when the model emits it *)
(* again.                                                                  *)
(***************************************************************************)
C22_OneExecutionPerBlock ==
    \A r \in Callers :
        /\ executions[r] <= Len(emitted[r])
        /\ Len(tool_calls[r]) = executions[r]
        /\ \A k \in 1..executions[r] : tool_calls[r][k].name = emitted[r][k].name
        /\ pc[r] \notin {"EXECUTING_TOOLS", "TOOL_IN_FLIGHT", "RAISED"} =>
               executions[r] = Len(emitted[r])
        /\ \A e \in 1..Len(script[r].events) :
               \A k \in 1..Len(script[r].events[e].gh) :
                   NoRepeats(Dispatcher(ToolUses(script[r].events[e].content)[k],
                                        script[r].events[e].gh[k]).calls)

\* The first call failed and was reported; the model emitted the same call
\* in the next iteration and it was executed a second time.
C22_Witness ==
    \E r \in Callers :
        /\ pc[r] = "AWAITING_MODEL"
        /\ Len(script[r].events) = 2
        /\ script[r].events[1].gh = <<GhRateLimit>>
        /\ script[r].events[2].gh = <<GhOk>>
        /\ executions[r] = 2
        /\ emitted[r][1] = emitted[r][2]
        /\ default_repo = TestRepo

----------------------------------------------------------------------------
(***************************************************************************)
(* C23.  The tool calls of a run are executed one at a time in emission    *)
(* order.  At most one dispatcher call of a run has started and not        *)
(* returned, and that is so exactly while run awaits the dispatcher; the   *)
(* results collected so far answer the first tool_use blocks of the        *)
(* response in order, and the call in flight is for the next one; the      *)
(* model is invoked only when every tool_use block emitted so far has been *)
(* executed and every dispatcher call has returned.                        *)
(***************************************************************************)
C23_OneToolAtATime ==
    /\ [](\A r \in Callers :
            /\ executions[r] - ToolsReturned(r) \in {0, 1}
            /\ executions[r] - ToolsReturned(r) = 1 <=> pc[r] = "TOOL_IN_FLIGHT"
            /\ pc[r] \in {"EXECUTING_TOOLS", "TOOL_IN_FLIGHT"} =>
                 /\ Len(tool_results[r]) <= Len(ToolUses(response[r]))
                 /\ ResultIds(tool_results[r]) =
                      SubSeq(ToolUseIds(response[r]), 1, Len(tool_results[r]))
            /\ pc[r] = "TOOL_IN_FLIGHT" =>
                 response[r][block[r]] = ToolUses(response[r])[Len(tool_results[r]) + 1])
    /\ [][calls_total' # calls_total =>
            \A r \in Callers :
                /\ executions[r] = ToolsReturned(r)
                /\ executions[r] = Len(emitted[r])]_vars

\* The second of two tool_use blocks of one response is in flight, the
\* first has returned its result.
C23_Witness ==
    \E r \in Callers :
        /\ pc[r] = "TOOL_IN_FLIGHT"
        /\ Len(ToolUses(response[r])) = 2
        /\ Len(tool_results[r]) = 1
        /\ executions[r] = 2
        /\ ToolsReturned(r) = 1

----------------------------------------------------------------------------
\* The check runs of the answer, and those of them that satisfy a condition.
RunsOf(data) == IF "check_runs" \in DOMAIN data THEN data.check_runs ELSE <<>>

Completed(run) == run.status = <<"completed">>
Succeeded(run) == "conclusion" \in DOMAIN run /\ run.conclusion = <<"success">>

(***************************************************************************)
(* C27.  get_pr_checks counts every check run in exactly one of pending    *)
(* (status not completed), passed (completed, conclusion success) and      *)
(* failed (completed, any other conclusion or none), so that total =       *)
(* passed + failed + pending = the length of the list of checks, for every *)
(* list of check runs.  (Checked under SpecClient.)                        *)
(***************************************************************************)
C27_ChecksPartitioned ==
    (call.op = "get_pr_checks" /\ call.done) =>
        LET runs == RunsOf(call.data)
            N == 1..Len(runs)
        IN  /\ call.result.total = Len(runs)
            /\ Len(call.result.checks) = Len(runs)
            /\ call.result.pending = Cardinality({ i \in N : ~Completed(runs[i]) })
            /\ call.result.passed =
                 Cardinality({ i \in N : Completed(runs[i]) /\ Succeeded(runs[i]) })
            /\ call.result.failed =
                 Cardinality({ i \in N : Completed(runs[i]) /\ ~Succeeded(runs[i]) })
            /\ call.result.total =
                 call.result.passed + call.result.failed + call.result.pending

\* Two completed runs, one that succeeded and one without a conclusion.
C27_Witness ==
    /\ call.op = "get_pr_checks"
    /\ call.done
    /\ call.result.total = 2
    /\ call.result.passed = 1
    /\ call.result.failed = 1
    /\ \E i \in 1..2 : "conclusion" \notin DOMAIN call.data.check_runs[i]

----------------------------------------------------------------------------
\* How many times x is in the sequence s.
Count(s, x) == Cardinality({ i \in 1..Len(s) : s[i] = x })

\* A general comment as it must come out: no path, no line.
General(c) ==
    [user |-> c.user, body |-> c.body, created_at |-> c.created_at,
     path |-> None, line |-> None]

\* An inline comment as it must come out: with its path and line.
Inline(c) ==
    [user |-> c.user, body |-> c.body, created_at |-> c.created_at,
     path |-> c.path, line |-> c.line]

(***************************************************************************)
(* C28.  get_pr_comments returns a permutation of the general comments and *)
(* the inline comments: each comes out as many times as it came in, the    *)
(* inline ones with their path and line, the general ones with neither,    *)
(* and the sequence is in ascending order of created_at.                   *)
(* (Checked under SpecClient.)                                             *)
(***************************************************************************)
C28_CommentsMergedAndSorted ==
    (call.op = "get_pr_comments" /\ call.done) =>
        LET general == [i \in 1..Len(call.issue_comments) |->
                            General(call.issue_comments[i])]
            inline == [i \in 1..Len(call.review_comments) |->
                            Inline(call.review_comments[i])]
            all == general \o inline
        IN  /\ Len(call.result) = Len(all)
            /\ \A i \in 1..Len(all) :
                   Count(call.result, all[i]) = Count(all, all[i])
            /\ \A i, j \in 1..Len(call.result) :
                   i < j => call.result[i].created_at <= call.result[j].created_at

\* An inline comment created before a general one comes out first.
C28_Witness ==
    /\ call.op = "get_pr_comments"
    /\ call.done
    /\ Len(call.issue_comments) = 1
    /\ Len(call.review_comments) = 2
    /\ call.issue_comments[1].created_at = 2
    /\ call.review_comments[1].created_at = 1
    /\ call.result[1].path = <<"src/app.py">>
    /\ call.result[1].line = <<"12">>
    /\ call.result[2].path = None

----------------------------------------------------------------------------
(***************************************************************************)
(* C32.  When GitHubPRAgent.run fails with a protocol error, nothing is    *)
(* appended for the offending response and nothing is taken back: until    *)
(* reset or the next run, the conversation is the one that was sent to the *)
(* model in the failed invocation, which ends with a user turn, and the    *)
(* next run appends its message to exactly that history.                   *)
(***************************************************************************)
C32_ProtocolErrorKeepsHistory ==
    /\ [](\A r \in Callers :
            (impl = PR /\ pc[r] = "PROTOCOL_ERROR" /\ ~pristine) =>
                /\ outcome[r].kind = "raised"
                /\ conversation = sent[r]
                /\ conversation # <<>>
                /\ conversation[Len(conversation)].role = "user")
    /\ [][\A r \in Callers :
            (impl = PR /\ pc[r] = "PROTOCOL_ERROR" /\ ~pristine
                 /\ pc'[r] = "AWAITING_MODEL") =>
                \E m \in UserMessages : conversation' = Append(sent[r], UserTurn(m))]_vars

\* The second invocation of a run answered with an unexpected stop_reason:
\* the message, the assistant turn and the tool results are all there.
C32_Witness ==
    \E r \in Callers :
        /\ impl = PR
        /\ pc[r] = "PROTOCOL_ERROR"
        /\ model_calls[r] = 2
        /\ Len(conversation) = 3
        /\ conversation[2].role = "assistant"
        /\ conversation[3].kind = "tool_results"

----------------------------------------------------------------------------
\* The response being processed was a tool_use one without a tool_use block.
NoToolUseBlock(stop, content) == stop = "tool_use" /\ ToolUses(content) = <<>>

(***************************************************************************)
(* C33.  A response with stop_reason tool_use and no tool_use block        *)
(* consumes one iteration and appends exactly two turns, the assistant     *)
(* turn and a user turn with an empty list of tool results; the dispatcher *)
(* is not called and tool_calls does not change.                           *)
(***************************************************************************)
C33_EmptyToolUseResponse ==
    /\ [](\A r \in Callers :
            (pc[r] = "AWAITING_MODEL" /\ NoToolUseBlock(last_stop[r], response[r])) =>
                /\ Len(conversation) >= 3
                /\ conversation[Len(conversation) - 1] = AssistantTurn(response[r])
                /\ conversation[Len(conversation)] = ToolResultsTurn(<<>>))
    /\ [][\A r \in Callers :
            (calls_total' # calls_total /\ NoToolUseBlock(last_stop'[r], response'[r])) =>
                /\ iterations'[r] = iterations[r] + 1
                /\ conversation' = Append(conversation, AssistantTurn(response'[r]))
                /\ tool_calls' = tool_calls
                /\ executions' = executions]_vars
    /\ [][\A r \in Callers :
            (pc[r] = "EXECUTING_TOOLS" /\ NoToolUseBlock(last_stop[r], response[r])) =>
                /\ iterations' = iterations
                /\ tool_calls' = tool_calls
                /\ executions' = executions
                /\ pc'[r] \in {"EXECUTING_TOOLS", "AWAITING_MODEL"}
                /\ conversation' = IF pc'[r] = "AWAITING_MODEL"
                                   THEN Append(conversation, ToolResultsTurn(<<>>))
                                   ELSE conversation]_vars

\* A tool_use response made of one text block was processed in the first
\* iteration of a run.
C33_Witness ==
    \E r \in Callers :
        /\ pc[r] = "AWAITING_MODEL"
        /\ NoToolUseBlock(last_stop[r], response[r])
        /\ Len(response[r]) = 1
        /\ response[r][1].type = "text"
        /\ iterations[r] = 1
        /\ tool_calls[r] = <<>>
        /\ Len(conversation) = 3

----------------------------------------------------------------------------
\* The one call of a search_pull_requests execution that reached the client.
SearchCall == call.result.calls[1]

Searched ==
    /\ call.done
    /\ call.tool_name = "search_pull_requests"
    /\ Has(call.tool_input, "query")

\* How many times needle is in s.
Occurrences(s, needle) ==
    Cardinality({ i \in 0..(Len(s) - Len(needle)) :
                      SubSeq(s, i + 1, i + Len(needle)) = needle })

(***************************************************************************)
(* C35 as stated.  search_pull_requests never uses the default repository: *)
(* repo and org reach the client as given, None when omitted, and the      *)
(* query is scoped to at most one of them, to the repository whenever both *)
(* are supplied.  (Checked under SpecExec.)                                *)
(***************************************************************************)
C35_RepoScopeWhenBothSupplied ==
    Searched =>
        /\ Len(call.result.calls) = 1
        /\ SearchCall.repo = Get(call.tool_input, "repo", None)
        /\ SearchCall.org = Get(call.tool_input, "org", None)
        /\ (Has(call.tool_input, "repo") /\ Has(call.tool_input, "org")) =>
               HttpRequests(SearchCall)[1].params.q =
                   <<"is:pr ">> \o call.tool_input.query
                       \o <<" repo:">> \o call.tool_input.repo

(***************************************************************************)
(* C35, amended.  search_pull_requests never uses the default repository:  *)
(* repo and org reach the client as given, None when omitted, and the      *)
(* query is scoped to at most one of them: to the repository when a        *)
(* non-empty repo is supplied, otherwise to the organisation when a        *)
(* non-empty org is supplied, otherwise to neither.  An empty repo counts  *)
(* as omitted.  (Checked under SpecExec.)                                  *)
(***************************************************************************)
C35_SearchScope ==
    Searched =>
        /\ Len(call.result.calls) = 1
        /\ SearchCall.repo = Get(call.tool_input, "repo", None)
        /\ SearchCall.org = Get(call.tool_input, "org", None)
        /\ Len(HttpRequests(SearchCall)) = 1
        /\ Occurrences(HttpRequests(SearchCall)[1].params.q, <<" repo:">>)
             + Occurrences(HttpRequests(SearchCall)[1].params.q, <<" org:">>) <= 1
        /\ HttpRequests(SearchCall)[1].params.q =
             <<"is:pr ">> \o call.tool_input.query \o
                 (IF Truthy(Get(call.tool_input, "repo", None))
                  THEN <<" repo:">> \o call.tool_input.repo
                  ELSE IF Truthy(Get(call.tool_input, "org", None))
                  THEN <<" org:">> \o call.tool_input.org
                  ELSE <<>>)

\* Both supplied with a default configured: the query names the repository
\* of the input, not the organisation and not the default.
C35_Witness ==
    /\ Searched
    /\ call.default = TestRepo
    /\ call.tool_input = [query |-> <<"is:open">>, repo |-> AcmeWidgets,
                          org |-> <<"acme">>]
    /\ HttpRequests(SearchCall)[1].params.q =
         <<"is:pr ", "is:open", " repo:", "acme", "/", "widgets">>

----------------------------------------------------------------------------
ChangesRequested(reviews) ==
    \E i \in 1..Len(reviews) : reviews[i].state = <<"CHANGES_REQUESTED">>

\* Nothing stands in the way of the merge.
NothingBlocks(pr, reviews, checks) ==
    /\ ~pr.draft
    /\ ~ChangesRequested(reviews)
    /\ pr.requested_reviewers = <<>>
    /\ checks.failed = 0
    /\ checks.pending = 0
    /\ pr.mergeable # <<"False">>

(***************************************************************************)
(* C34.  get_pr_ready_status returns READY exactly when its list of        *)
(* blockers is empty, that is when the PR is no draft, no review requests  *)
(* changes, no reviewer is still requested, no check failed, none is       *)
(* pending and mergeable is not False; otherwise it returns DRAFT for a    *)
(* draft, else BLOCKED when changes were requested or mergeable is False,  *)
(* else PENDING.  (Checked under SpecClient.)                              *)
(***************************************************************************)
C34_ReadyStatus ==
    (call.op = "get_pr_ready_status" /\ call.done) =>
        /\ call.result.status = "READY" <=> call.result.blockers = <<>>
        /\ call.result.blockers = <<>> <=>
               NothingBlocks(call.pr, call.reviews, call.checks)
        /\ ~NothingBlocks(call.pr, call.reviews, call.checks) =>
               call.result.status =
                   IF call.pr.draft THEN "DRAFT"
                   ELSE IF ChangesRequested(call.reviews)
                           \/ call.pr.mergeable = <<"False">>
                   THEN "BLOCKED"
                   ELSE "PENDING"

\* An approved PR whose check passed and whose mergeability GitHub has not
\* computed yet is READY.
C34_Witness ==
    /\ call.op = "get_pr_ready_status"
    /\ call.done
    /\ call.pr.mergeable = None
    /\ call.checks.passed = 1
    /\ Len(call.reviews) = 1
    /\ call.result.status = "READY"
    /\ call.result.reviews.approvals = 1

----------------------------------------------------------------------------
\* The step in which the run of r appends its tool results.
AppendsResults(r) == pc[r] = "EXECUTING_TOOLS" /\ pc'[r] = "AWAITING_MODEL"

(***************************************************************************)
(* C31 as stated.  Also when reset or a second run was executed while the  *)
(* run was suspended at its tool await, the user turn with the tool        *)
(* results is appended right after the assistant turn whose tool_use       *)
(* blocks it answers.  (Checked under SpecConcurrent.)                     *)
(***************************************************************************)
C31_ResultsLandAfterTheirTurn ==
    [][\A r \in Callers :
         AppendsResults(r) =>
             /\ conversation # <<>>
             /\ conversation[Len(conversation)] = AssistantTurn(response[r])
             /\ conversation' = Append(conversation, ToolResultsTurn(tool_results[r]))]_vars

(***************************************************************************)
(* C31, amended.  When reset or a second run was executed while the run    *)
(* was suspended at its tool await, the user turn with the tool results,   *)
(* one for each tool_use block of the run's response, is appended at the   *)
(* end of the conversation as reset or the second run left it; it comes    *)
(* right after the assistant turn it answers when the conversation is      *)
(* still as the suspended run left it.  (Checked under SpecConcurrent.)    *)
(***************************************************************************)
C31_ResultsAppendedLast ==
    [][\A r \in Callers :
         AppendsResults(r) =>
             /\ conversation' = Append(conversation, ToolResultsTurn(tool_results[r]))
             /\ ResultIds(tool_results[r]) = ToolUseIds(response[r])
             /\ conversation = Append(sent[r], AssistantTurn(response[r])) =>
                    conversation'[Len(conversation') - 1] = AssistantTurn(response[r])]_vars

\* A second run began and ended while the first was suspended: the first
\* run's tool results come after the second run's message and answer.
C31_Witness ==
    /\ pc[1] = "AWAITING_MODEL"
    /\ pc[2] = "DONE"
    /\ Len(conversation) = 5
    /\ conversation[2] = AssistantTurn(response[1])
    /\ conversation[3].kind = "message"
    /\ conversation[4].role = "assistant"
    /\ conversation[5] = ToolResultsTurn(tool_results[1])
    /\ Len(tool_results[1]) = 1

====
